---------------------------- MODULE Spec2Model ----------------------------
(***************************************************************************)
(* A model of flexster's metadata pipeline (music_fetcher.py):             *)
(* MusicFetcher.fetch_all calls fetch_metadata for every query, which      *)
(* contacts the catalog (iTunes), the encyclopedia (MusicBrainz), the      *)
(* knowledge graph (Wikipedia/Wikidata) and the streaming service          *)
(* (Spotify), and folds the answers into one record.                       *)
(*                                                                         *)
(* Python strings on which the code computes are sequences of one-         *)
(* character strings; a dict is a function from its keys; None is the      *)
(* value None (for str | None) or NoneD (for dict | None).  Every remote   *)
(* response is an input chosen by the request's action.                    *)
(***************************************************************************)
EXTENDS Integers, Sequences, FiniteSets, TLC

---------------------------------------------------------------------------
(* Python values *)

None == <<"None">>

NoneD == [none |-> TRUE]

\* A list (of objects) that is null.
NoneL == <<[none_list |-> TRUE]>>

\* Python truthiness of a str | None value.
Truthy(x) == x /= None /\ x /= <<>>

\* dict.get(k, default)
Get(d, k, default) == IF k \in DOMAIN d THEN d[k] ELSE default

Min(a, b) == IF a < b THEN a ELSE b

\* s[:n]
Take(s, n) == SubSeq(s, 1, Min(n, Len(s)))

\* The characters of the model's strings are those of Latin-1. Its upper-case
\* letters and, at the same positions, what str.lower() makes of them.
UpperCase ==
    <<"A", "B", "C", "D", "E", "F", "G", "H", "I", "J", "K", "L", "M",
      "N", "O", "P", "Q", "R", "S", "T", "U", "V", "W", "X", "Y", "Z",
      "À", "Á", "Â", "Ã", "Ä", "Å", "Æ", "Ç", "È", "É", "Ê", "Ë", "Ì", "Í", "Î", "Ï",
      "Ð", "Ñ", "Ò", "Ó", "Ô", "Õ", "Ö", "Ø", "Ù", "Ú", "Û", "Ü", "Ý", "Þ">>

LowerCase ==
    <<"a", "b", "c", "d", "e", "f", "g", "h", "i", "j", "k", "l", "m",
      "n", "o", "p", "q", "r", "s", "t", "u", "v", "w", "x", "y", "z",
      "à", "á", "â", "ã", "ä", "å", "æ", "ç", "è", "é", "ê", "ë", "ì", "í", "î", "ï",
      "ð", "ñ", "ò", "ó", "ô", "õ", "ö", "ø", "ù", "ú", "û", "ü", "ý", "þ">>

\* The characters str.strip() and str.split() take for blanks
\* (str.isspace()): tab, line feed, vertical tab, form feed, carriage return,
\* the four separators U+001C to U+001F, space, next line (U+0085) and
\* no-break space.
Whitespace ==
    {"\t", "\n", "", "\f", "\r", "", "", "", "", " ", "", " "}

\* The blanks int() strips: those of str.strip() without the four separators.
IntWhitespace == Whitespace \ {"", "", "", ""}

LowerChar(c) ==
    IF \E k \in 1..Len(UpperCase) : UpperCase[k] = c
    THEN LowerCase[CHOOSE k \in 1..Len(UpperCase) : UpperCase[k] = c]
    ELSE c

\* str.lower()
Lower(s) == [k \in 1..Len(s) |-> LowerChar(s[k])]

\* needle in haystack
Contains(h, n) == \E k \in 0..(Len(h) - Len(n)) : SubSeq(h, k + 1, k + Len(n)) = n

\* The decimal digits, which int() reads.
Digits == {"0", "1", "2", "3", "4", "5", "6", "7", "8", "9"}

DigitVal(c) ==
    CASE c = "0" -> 0 [] c = "1" -> 1 [] c = "2" -> 2 [] c = "3" -> 3 [] c = "4" -> 4
      [] c = "5" -> 5 [] c = "6" -> 6 [] c = "7" -> 7 [] c = "8" -> 8 [] c = "9" -> 9

\* The characters str.isdigit() accepts: the decimal digits and the
\* superscript digits.
DigitChars == Digits \cup {"²", "³", "¹"}

\* str.isdigit()
IsDigit(s) == Len(s) > 0 /\ \A k \in 1..Len(s) : s[k] \in DigitChars

RECURSIVE DecVal(_)
DecVal(s) == IF s = <<>> THEN 0 ELSE 10 * DecVal(SubSeq(s, 1, Len(s) - 1)) + DigitVal(s[Len(s)])

\* The digits of an int literal: decimal digits, single underscores allowed
\* between two digits.
IsIntBody(s) ==
    /\ Len(s) > 0
    /\ \A k \in 1..Len(s) :
           \/ s[k] \in Digits
           \/ s[k] = "_" /\ 1 < k /\ k < Len(s) /\ s[k - 1] \in Digits /\ s[k + 1] \in Digits

\* str.split(): the maximal runs of non-blank characters, in order.
RECURSIVE SplitWS(_)
SplitWS(s) ==
    IF s = <<>> THEN <<>>
    ELSE IF s[1] \in Whitespace THEN SplitWS(Tail(s))
    ELSE LET stop == IF \E k \in 1..Len(s) : s[k] \in Whitespace
                     THEN (CHOOSE k \in 1..Len(s) :
                               s[k] \in Whitespace /\ \A j \in 1..(k - 1) : s[j] \notin Whitespace)
                     ELSE Len(s) + 1
         IN  <<SubSeq(s, 1, stop - 1)>> \o SplitWS(SubSeq(s, stop, Len(s)))

\* str.strip()
RECURSIVE Strip(_)
Strip(s) ==
    IF s = <<>> THEN s
    ELSE IF s[1] \in Whitespace THEN Strip(Tail(s))
    ELSE IF s[Len(s)] \in Whitespace THEN Strip(SubSeq(s, 1, Len(s) - 1))
    ELSE s

\* The blanks int() skips around the literal.
RECURSIVE StripInt(_)
StripInt(s) ==
    IF s = <<>> THEN s
    ELSE IF s[1] \in IntWhitespace THEN StripInt(Tail(s))
    ELSE IF s[Len(s)] \in IntWhitespace THEN StripInt(SubSeq(s, 1, Len(s) - 1))
    ELSE s

\* s.replace(c, ''), c one character
RemoveChar(s, c) == SelectSeq(s, LAMBDA x : x /= c)

\* int(s) succeeds (blanks around, an optional sign, the digits); otherwise
\* ValueError.
IntParses(s) ==
    LET t == StripInt(s)
    IN  /\ Len(t) > 0
        /\ IF t[1] \in {"+", "-"} THEN IsIntBody(Tail(t)) ELSE IsIntBody(t)

\* int(s)
IntOf(s) ==
    LET t == RemoveChar(StripInt(s), "_")
    IN  IF t[1] = "-" THEN 0 - DecVal(Tail(t))
        ELSE IF t[1] = "+" THEN DecVal(Tail(t))
        ELSE DecVal(t)

---------------------------------------------------------------------------
(* Literals of the code *)

Unknown == <<"U", "n", "k", "n", "o", "w", "n">>

UnknownTitle == <<"U", "n", "k", "n", "o", "w", "n", " ", "T", "i", "t", "l", "e">>

UnknownArtist == <<"U", "n", "k", "n", "o", "w", "n", " ", "A", "r", "t", "i", "s", "t">>

UnknownComposer ==
    <<"U", "n", "k", "n", "o", "w", "n", " ", "C", "o", "m", "p", "o", "s", "e", "r">>

UnknownAlbum == <<"U", "n", "k", "n", "o", "w", "n", " ", "A", "l", "b", "u", "m">>

UnknownGenre == <<"U", "n", "k", "n", "o", "w", "n", " ", "G", "e", "n", "r", "e">>

\* The placeholder client id of spotify_config.json (configuration values are
\* only compared and tested for emptiness: they are TLA+ strings).
PlaceholderClientId == "YOUR_SPOTIFY_CLIENT_ID"

\* An exception raised inside a helper, as a value.
Exn == <<"Exception">>

---------------------------------------------------------------------------
(* fetch_work_details_from_mb: artist query and title variants *)

Separators == {",", "&"}

\* re.split(r'[,&]', artist)
RECURSIVE SplitArtists(_)
SplitArtists(s) ==
    IF \E k \in 1..Len(s) : s[k] \in Separators
    THEN LET k == CHOOSE j \in 1..Len(s) :
                     s[j] \in Separators /\ \A m \in 1..(j - 1) : s[m] \notin Separators
         IN  <<SubSeq(s, 1, k - 1)>> \o SplitArtists(SubSeq(s, k + 1, Len(s)))
    ELSE <<s>>

\* [a.strip().replace('"', '') for a in artists if a.strip()]
Artists(artist) ==
    LET kept == SelectSeq(SplitArtists(artist), LAMBDA a : Strip(a) /= <<>>)
    IN  [k \in 1..Len(kept) |-> RemoveChar(Strip(kept[k]), "\"")]

Quoted(a) == <<"\"">> \o a \o <<"\"">>

\* ' OR '.join([f'"{a}"' for a in artists])
RECURSIVE JoinOr(_)
JoinOr(artists) ==
    IF Len(artists) = 1 THEN Quoted(artists[1])
    ELSE Quoted(artists[1]) \o <<" ", "O", "R", " ">> \o JoinOr(Tail(artists))

\* artist:("A" OR "B"), or '' when there is no artist
ArtistQuery(artists) ==
    IF artists /= <<>>
    THEN <<"a", "r", "t", "i", "s", "t", ":", "(">> \o JoinOr(artists) \o <<")">>
    ELSE <<>>

\* clean_title.split(": ", 1)[1]
AfterColon(s) ==
    LET k == CHOOSE j \in 1..(Len(s) - 1) :
                 /\ s[j] = ":" /\ s[j + 1] = " "
                 /\ \A m \in 1..(j - 1) : ~(s[m] = ":" /\ s[m + 1] = " ")
    IN  SubSeq(s, k + 2, Len(s))

\* The pattern \(.*?\) matches at p: a "(" whose next ")" comes before any
\* line feed ("." matches no line feed).
GroupAt(s, p) ==
    /\ s[p] = "("
    /\ \E q \in (p + 1)..Len(s) :
           s[q] = ")" /\ \A m \in (p + 1)..(q - 1) : s[m] \notin {")", "\n"}

\* re.sub(r'\(.*?\)', '', s): from the left, every match is removed, from its
\* "(" up to the next ")".
RECURSIVE RemoveParens(_)
RemoveParens(s) ==
    IF \E p \in 1..Len(s) : GroupAt(s, p)
    THEN LET p == CHOOSE j \in 1..Len(s) : GroupAt(s, j) /\ \A m \in 1..(j - 1) : ~GroupAt(s, m)
             q == CHOOSE j \in (p + 1)..Len(s) :
                      s[j] = ")" /\ \A m \in (p + 1)..(j - 1) : s[m] /= ")"
         IN  SubSeq(s, 1, p - 1) \o RemoveParens(SubSeq(s, q + 1, Len(s)))
    ELSE s

\* The variant without parenthesised groups tried before the one after ": ".
TitleVariants_GroupsFirst(title) ==
    LET clean_title == RemoveChar(title, "\"")
        colon == IF Contains(clean_title, <<":", " ">>)
                 THEN <<AfterColon(clean_title)>> ELSE <<>>
        base_title == Strip(RemoveParens(clean_title))
        base == IF base_title /= <<>> /\ base_title /= clean_title
                THEN <<base_title>> ELSE <<>>
    IN  <<clean_title>> \o base \o colon

TitleVariants(title) ==
    LET clean_title == RemoveChar(title, "\"")
        colon == IF Contains(clean_title, <<":", " ">>)
                 THEN <<AfterColon(clean_title)>> ELSE <<>>
        base_title == Strip(RemoveParens(clean_title))
        base == IF base_title /= <<>> /\ base_title /= clean_title
                THEN <<base_title>> ELSE <<>>
    IN  <<clean_title>> \o colon \o base

---------------------------------------------------------------------------
(* fetch_work_details_from_mb: reading a work *)

\* for relation in relations: if relation.get("type") == type: the position
\* of the first relation of the given type, 0 when there is none, -1 when
\* the loop raises before it (the list is null: TypeError; a relation is
\* null: AttributeError).
FirstOfType(relations, type) ==
    LET stops(k) == relations[k] = NoneD \/ Get(relations[k], "type", "") = type
    IN  IF relations = NoneL THEN -1
        ELSE IF \E k \in 1..Len(relations) : stops(k)
        THEN LET k == CHOOSE j \in 1..Len(relations) :
                          stops(j) /\ \A m \in 1..(j - 1) : ~stops(m)
             IN  IF relations[k] = NoneD THEN -1 ELSE k
        ELSE 0

\* for relation in work_details.get("relations", []): if type == "composer":
\* relation["artist"]["name"]. Exn when a step raises: work_details, the
\* list, a relation before the composer or the artist is null, or a key is
\* missing.
ComposerOf(work_details) ==
    LET relations == IF work_details = NoneD THEN NoneL
                     ELSE Get(work_details, "relations", <<>>)
        k == FirstOfType(relations, "composer")
    IN  IF k = -1 THEN Exn
        ELSE IF k = 0 THEN None
        ELSE IF "artist" \notin DOMAIN relations[k] THEN Exn
        ELSE IF "name" \notin DOMAIN relations[k].artist THEN Exn
        ELSE relations[k].artist.name

\* The position of the first performance relation that has a "begin" key,
\* 0 when there is none, -1 when the loop raises before it (the list or a
\* relation is null).
FirstPerformanceBegin(relations) ==
    LET stops(k) ==
            \/ relations[k] = NoneD
            \/ Get(relations[k], "type", "") = "performance" /\ "begin" \in DOMAIN relations[k]
    IN  IF relations = NoneL THEN -1
        ELSE IF \E k \in 1..Len(relations) : stops(k)
        THEN LET k == CHOOSE j \in 1..Len(relations) :
                          stops(j) /\ \A m \in 1..(j - 1) : ~stops(m)
             IN  IF relations[k] = NoneD THEN -1 ELSE k
        ELSE 0

\* work_year: the life-span begin, overwritten by the first performance
\* relation that has a "begin" key. A null life-span (NoneD) raises
\* AttributeError at life_span.get, a null begin TypeError at [:4].
WorkYear(work_details) ==
    LET life_span == IF work_details = NoneD THEN NoneD
                     ELSE Get(work_details, "life-span", [id |-> "none"])
        from_span == IF Truthy(Get(life_span, "begin", None))
                     THEN Take(life_span.begin, 4) ELSE None
        relations == IF work_details = NoneD THEN NoneL
                     ELSE Get(work_details, "relations", <<>>)
        k == FirstPerformanceBegin(relations)
    IN  IF life_span = NoneD \/ k = -1 THEN Exn
        ELSE IF k = 0 THEN from_span
        ELSE IF relations[k].begin = None THEN Exn
        ELSE Take(relations[k].begin, 4)

\* What one title variant yields from its work: a result, or NoneD (the loop
\* goes on: no composer, or an exception caught by the variant's except).
VariantResult(work_details) ==
    LET composer_name == ComposerOf(work_details)
        work_year == WorkYear(work_details)
    IN  IF composer_name = Exn \/ work_year = Exn THEN NoneD
        ELSE IF Truthy(composer_name) THEN [composer |-> composer_name, year |-> work_year]
        ELSE NoneD

\* Heuristic 1 or 2 of the free-text fallback.
Accepts(composer_name, artist, original_query) ==
    \/ Truthy(artist) /\ Contains(Lower(artist), Lower(composer_name))
    \/ LET parts == SplitWS(composer_name)
       IN  \E k \in 1..Len(parts) :
               Len(parts[k]) > 3 /\ Contains(Lower(original_query), Lower(parts[k]))

---------------------------------------------------------------------------
(* fetch_composition_year_from_wikidata: extract_year *)

\* time_str.lstrip(c)
RECURSIVE LStrip(_, _)
LStrip(s, c) == IF s /= <<>> /\ s[1] = c THEN LStrip(Tail(s), c) ELSE s

\* snak["mainsnak"]["datavalue"]["value"]["time"] is there and is a string;
\* otherwise the try of extract_year catches KeyError, TypeError or
\* AttributeError (a null object is NoneD, a null string None).
HasTime(snak) ==
    /\ "mainsnak" \in DOMAIN snak
    /\ "datavalue" \in DOMAIN snak.mainsnak
    /\ "value" \in DOMAIN snak.mainsnak.datavalue
    /\ "time" \in DOMAIN snak.mainsnak.datavalue.value
    /\ snak.mainsnak.datavalue.value.time /= None

\* extract_year(prop)
ExtractYear(claims, prop) ==
    LET snaks == Get(claims, prop, <<>>)
    IN  IF snaks = NoneL \/ snaks = <<>> THEN None
        ELSE IF ~HasTime(snaks[1]) THEN None
        ELSE LET time_str == snaks[1].mainsnak.datavalue.value.time
                 year == Take(LStrip(LStrip(time_str, "+"), "-"), 4)
             IN  IF IsDigit(year) THEN year ELSE None

\* EntityYear with the publication date read first.
EntityYear_PublicationFirst(claims) ==
    IF Truthy(ExtractYear(claims, "P577")) THEN ExtractYear(claims, "P577")
    ELSE ExtractYear(claims, "P571")

\* P571 (inception) first, otherwise P577 (publication date)
EntityYear(claims) ==
    IF Truthy(ExtractYear(claims, "P571")) THEN ExtractYear(claims, "P571")
    ELSE ExtractYear(claims, "P577")

---------------------------------------------------------------------------
(* fetch_metadata: merging *)

\* RecordingYear with the whole release date kept.
RecordingYear_Whole(result) ==
    LET release_date == Get(result, "releaseDate", <<>>)
    IN  IF Truthy(release_date) THEN release_date ELSE Unknown

\* recording_year = release_date[:4] if release_date else "Unknown"
RecordingYear(result) ==
    LET release_date == Get(result, "releaseDate", <<>>)
    IN  IF Truthy(release_date) THEN Take(release_date, 4) ELSE Unknown

\* FinalComposer with the encyclopedia's composer preferred to the catalog's.
FinalComposer_PreferMB(composer, mb_data) ==
    IF mb_data /= NoneD /\ Truthy(Get(mb_data, "composer", None)) THEN mb_data.composer
    ELSE composer

\* FinalComposer that never takes the encyclopedia's composer.
FinalComposer_CatalogOnly(composer, mb_data) == composer

\* final_composer after the encyclopedia lookup
FinalComposer(composer, mb_data) ==
    IF mb_data /= NoneD /\ ~Truthy(composer) THEN Get(mb_data, "composer", None)
    ELSE composer

\* MBYear with the encyclopedia's year ignored.
MBYear_Ignored(mb_data) == None

\* composition_year after the encyclopedia lookup
MBYear(mb_data) ==
    IF mb_data /= NoneD /\ Truthy(Get(mb_data, "year", None)) THEN mb_data.year
    ELSE None

\* x or y
Or(x, y) == IF Truthy(x) THEN x ELSE y

\* The record fetch_metadata returns, from its locals.
Record(f) ==
    [query |-> f.query,
     title |-> f.title,
     artist |-> f.artist,
     composer |-> IF Truthy(f.final_composer) THEN f.final_composer ELSE UnknownComposer,
     album |-> Get(f.result, "collectionName", UnknownAlbum),
     year |-> Or(f.composition_year, f.recording_year),
     recording_year |-> f.recording_year,
     composition_year |-> Or(f.composition_year, <<>>),
     genre |-> Get(f.result, "primaryGenreName", UnknownGenre),
     apple_link |-> Get(f.result, "trackViewUrl", <<>>),
     spotify_link |-> f.spotify_link]

---------------------------------------------------------------------------
(* Inputs: the queries, the configuration and the remote responses.        *)
(* A response is the decoded JSON body, or Exc: requests raised (network   *)
(* error, error status under raise_for_status, undecodable body).          *)

MaxQueries == 2

Q_BachX == <<"B", "a", "c", "h", " ", "x">>

Q_X == <<"x">>

Queries == {Q_BachX, Q_X}

\* The lists of up to MaxQueries titles in which neighbours differ.
QueryLists ==
    {titles \in UNION {[1..n -> Queries] : n \in 0..MaxQueries} :
        \A k \in 1..(Len(titles) - 1) : titles[k] /= titles[k + 1]}

\* spotify_config.json: absent or empty, the placeholder, real credentials.
SpotifyConfigs ==
    {[client_id |-> "", client_secret |-> ""],
     [client_id |-> PlaceholderClientId, client_secret |-> "secret"],
     [client_id |-> "id", client_secret |-> "secret"]}

Exc == [exc |-> TRUE]

IsExc(r) == "exc" \in DOMAIN r

S_Air == <<"A", "i", "r">>

S_XAirA == <<"X", ":", " ", "A", "i", "r", " ", "(", "a", ")">>

S_Yo == <<"Y", "o">>

S_OrffMa == <<"O", "r", "f", "f", " ", "&", " ", "M", "a">>

S_Bach == <<"B", "a", "c", "h">>

S_JBach == <<"J", " ", "B", "a", "c", "h">>

S_Orff == <<"O", "r", "f", "f">>

S_XRavel == <<"x", " ", "R", "a", "v", "e", "l">>

S_2011 == <<"2", "0", "1", "1", "-", "0", "1">>

S_1724 == <<"1", "7", "2", "4">>

S_2025 == <<"2", "0", "2", "5", "-", "0", "3">>

\* The top results of the catalog search.
CatalogResults ==
    {[trackName |-> S_XAirA, artistName |-> S_OrffMa, composer |-> S_Bach,
      releaseDate |-> S_2011, collectionName |-> <<"A", "l", "b">>,
      primaryGenreName |-> <<"J", "a", "z", "z">>, trackViewUrl |-> <<"u", "1">>],
     [trackName |-> S_XAirA, artistName |-> S_OrffMa, releaseDate |-> S_2011,
      trackViewUrl |-> <<"u", "1">>],
     [trackName |-> S_Air, artistName |-> S_Yo, composer |-> <<>>, releaseDate |-> <<>>],
     [trackName |-> S_Air, artistName |-> <<"&">>, composer |-> None, releaseDate |-> None],
     [wrapperType |-> "track"],
     [trackName |-> None, artistName |-> S_Yo],
     [trackName |-> S_Air, artistName |-> None]}

ITunesResponses ==
    {Exc,
     [results |-> <<>>],
     [resultCount |-> 0, results |-> <<>>],
     [resultCount |-> 1],
     [resultCount |-> 1, results |-> <<>>],
     [resultCount |-> 1, results |-> <<NoneD>>]}
    \cup {[resultCount |-> 1, results |-> <<r>>] : r \in CatalogResults}

RecordingSearchResponses ==
    {Exc, [count |-> 0], [recordings |-> <<>>], [recordings |-> <<[id |-> "r1"]>>],
     [recordings |-> <<[title |-> S_Air]>>]}

WorkRelation == ("target-type" :> "work") @@ [work |-> [id |-> "w1"]]

ArtistRelation == ("target-type" :> "artist") @@ [artist |-> [id |-> "a1"]]

RecordingDetailsResponses ==
    {Exc, [id |-> "r1"], [id |-> "r1", relations |-> <<ArtistRelation>>],
     [id |-> "r1", relations |-> <<ArtistRelation, WorkRelation>>],
     [id |-> "r1", relations |-> <<"target-type" :> "work", WorkRelation>>],
     [id |-> "r1", relations |-> <<("target-type" :> "work") @@ [work |-> NoneD]>>]}

ComposerRel(name) == [type |-> "composer", artist |-> [name |-> name]]

PerformanceRel(begin) == [type |-> "performance", begin |-> begin]

LifeSpan(begin) == "life-span" :> [begin |-> begin]

WorkDetailsResponses ==
    {Exc,
     [id |-> "w1"],
     [id |-> "w1", relations |-> <<ComposerRel(S_JBach)>>],
     [id |-> "w1", relations |-> <<ComposerRel(S_JBach)>>] @@ LifeSpan(S_1724),
     [id |-> "w1", relations |-> <<ComposerRel(S_JBach), PerformanceRel(S_2025)>>]
         @@ LifeSpan(S_1724),
     [id |-> "w1", relations |-> <<PerformanceRel(None), ComposerRel(S_JBach)>>],
     [id |-> "w1", relations |-> <<ComposerRel(S_Orff), PerformanceRel(<<>>)>>]
         @@ LifeSpan(S_1724),
     [id |-> "w1", relations |-> <<[type |-> "performance"], ComposerRel(S_Orff)>>]
         @@ LifeSpan(<<>>),
     [id |-> "w1", relations |-> <<[type |-> "writer"]>>] @@ LifeSpan(S_1724),
     [id |-> "w1", relations |-> <<ComposerRel(S_JBach)>>] @@ ("life-span" :> NoneD),
     [id |-> "w1", relations |-> <<ComposerRel(S_JBach), NoneD>>] @@ LifeSpan(S_1724)}

\* limit of the free-text work search
WorkSearchLimit == 3

WorkSearchResponses ==
    {Exc, [works |-> <<[id |-> 1], [title |-> S_Air], [id |-> 3]>>]}
    \cup {[works |-> [k \in 1..n |-> [id |-> k]]] : n \in 0..WorkSearchLimit}

\* The work fetch of the fallback has no raise_for_status: an error status
\* with a JSON body is read like a work without relations.
FallbackWorkResponses ==
    {Exc,
     [error |-> "Not Found"],
     [id |-> "w", relations |-> <<>>],
     [id |-> "w", relations |-> <<ComposerRel(S_JBach)>>],
     [id |-> "w", relations |-> <<ComposerRel(S_Orff)>>],
     [id |-> "w", relations |-> <<ComposerRel(S_XRavel)>>],
     [id |-> "w", relations |-> <<NoneD, ComposerRel(S_JBach)>>]}

S_Air_Bach == <<"A", "i", "r", "_", "(", "B", "a", "c", "h", ")">>

S_Song == <<"A", " ", "S", "o", "n", "g">>

S_ByOrff == <<"w", "r", "i", "t", "t", "e", "n", " ", "b", "y", " ", "O", "r", "f", "f">>

WikipediaSearchResponses ==
    {Exc,
     [pages |-> <<>>],
     [pages |-> <<[id |-> 1]>>],
     [pages |-> <<[id |-> 1, key |-> S_Air]>>],
     [pages |-> <<[id |-> 1, key |-> S_Air, description |-> None],
                  [id |-> 2, key |-> S_Air_Bach, title |-> S_JBach, description |-> S_Song],
                  [id |-> 3, description |-> S_Song, excerpt |-> S_ByOrff]>>],
     [pages |-> <<[id |-> 1, key |-> S_Air],
                  [id |-> 2, key |-> S_Air_Bach, description |-> S_Song],
                  [id |-> 3, key |-> S_Air, description |-> S_Song]>>],
     [pages |-> <<[id |-> 1, key |-> S_Air], NoneD>>]}

PagePropsResponses ==
    {Exc,
     [batchcomplete |-> ""],
     [query |-> [pages |-> <<[pageid |-> 1]>>]],
     [query |-> [pages |-> <<[pageid |-> 1, pageprops |-> [wikibase_item |-> "Q1"]]>>]],
     [query |-> [pages |-> <<[pageid |-> 1, pageprops |-> NoneD],
                             [pageid |-> 2, pageprops |-> [wikibase_item |-> "Q1"]]>>]]}

TimeSnak(t) == [mainsnak |-> [datavalue |-> [value |-> [time |-> t]]]]

NoValueSnak == [mainsnak |-> [snaktype |-> "novalue"]]

T_1724 == <<"+", "1", "7", "2", "4", "-", "0", "1">>

T_2025 == <<"+", "2", "0", "2", "5", "-", "0", "1">>

EntityClaims ==
    {[P31 |-> <<>>],
     [P571 |-> <<TimeSnak(T_1724)>>],
     [P571 |-> <<TimeSnak(<<"+", "2", "0", "1", "1", "-", "0", "1">>)>>],
     [P571 |-> <<NoValueSnak>>, P577 |-> <<TimeSnak(T_2025)>>],
     [P571 |-> <<TimeSnak(T_1724)>>, P577 |-> <<TimeSnak(T_2025)>>],
     [P577 |-> <<TimeSnak(<<"-", "0", "5", "0", "0", "-", "0", "1">>)>>],
     [P571 |-> <<TimeSnak(<<"+", "1", "7">>)>>, P577 |-> <<>>],
     [P571 |-> <<TimeSnak(<<"+", "1", "7", "-", "0", "1">>)>>, P577 |-> <<TimeSnak(T_2025)>>],
     [P571 |-> <<TimeSnak(<<"+", "1", "2", "0", "2", "4", "-", "0", "1">>)>>],
     [P571 |-> <<NoValueSnak, TimeSnak(T_1724)>>],
     [P577 |-> <<TimeSnak(T_2025), TimeSnak(T_1724)>>],
     [P571 |-> <<[mainsnak |-> [datavalue |-> [value |-> [precision |-> 9]]]]>>,
      P577 |-> <<TimeSnak(T_2025)>>],
     [P571 |-> <<[mainsnak |-> [datavalue |-> NoneD]]>>]}

EntityResponses ==
    {Exc, [entities |-> [Q2 |-> [id |-> "Q2"]]], [entities |-> [Q1 |-> [id |-> "Q1"]]]}
    \cup {[entities |-> [Q1 |-> [claims |-> c]]] : c \in EntityClaims}

S_Tok == <<"t", "o", "k">>

SpotifyTokenResponses ==
    {Exc, [access_token |-> S_Tok], [access_token |-> S_Tok, expires_in |-> 3600],
     [access_token |-> None, expires_in |-> 3600]}

S_Url == <<"s", "p">>

SpotifyTrack ==
    [id |-> "t1", external_urls |-> [spotify |-> S_Url], name |-> S_Air,
     artists |-> <<[name |-> S_Yo]>>, album |-> [name |-> S_Air]]

SpotifySearchResponses ==
    {Exc,
     [error |-> "x"],
     [tracks |-> [items |-> <<>>]],
     [tracks |-> [items |-> <<[id |-> "t1"]>>]],
     [tracks |-> [items |-> <<[id |-> "t1", external_urls |-> [spotify |-> S_Url]]>>]],
     [tracks |-> [items |-> <<[SpotifyTrack EXCEPT !.album = NoneD]>>]],
     [tracks |-> [items |-> <<[SpotifyTrack EXCEPT !.external_urls = [spotify |-> None]]>>]],
     [tracks |-> [items |-> <<SpotifyTrack>>]]}

\* Lists of more than one query are run against these representative
\* subsets of the responses (one per outcome class), single queries against
\* the full sets.
ThinITunesResponses ==
    {Exc,
     [results |-> <<>>],
     [resultCount |-> 0, results |-> <<>>],
     [resultCount |-> 1,
      results |-> <<[trackName |-> S_XAirA, artistName |-> S_OrffMa, composer |-> S_Bach,
                     releaseDate |-> S_2011, trackViewUrl |-> <<"u", "1">>]>>],
     [resultCount |-> 1,
      results |-> <<[trackName |-> S_Air, artistName |-> S_Yo, releaseDate |-> S_2011]>>]}

ThinRecordingSearchResponses == {Exc, [recordings |-> <<[id |-> "r1"]>>]}

ThinRecordingDetailsResponses == {[id |-> "r1", relations |-> <<WorkRelation>>]}

ThinWorkDetailsResponses ==
    {[id |-> "w1", relations |-> <<ComposerRel(S_JBach), PerformanceRel(S_2025)>>],
     [id |-> "w1", relations |-> <<[type |-> "writer"]>>] @@ LifeSpan(S_1724)}

ThinWorkSearchResponses == {Exc, [works |-> <<[id |-> 1]>>]}

ThinFallbackWorkResponses ==
    {[id |-> "w", relations |-> <<ComposerRel(S_JBach)>>],
     [id |-> "w", relations |-> <<ComposerRel(S_XRavel)>>]}

ThinWikipediaSearchResponses == {Exc, [pages |-> <<[id |-> 1, key |-> S_Air]>>]}

ThinPagePropsResponses ==
    {[query |-> [pages |-> <<[pageid |-> 1, pageprops |-> [wikibase_item |-> "Q1"]]>>]]}

ThinEntityResponses ==
    {[entities |->
          [Q1 |-> [claims |-> [P571 |-> <<TimeSnak(<<"+", "2", "0", "1", "1", "-", "0", "1">>)>>]]]]}

ThinSpotifyTokenResponses == {[access_token |-> S_Tok, expires_in |-> 3600]}

ThinSpotifySearchResponses == {Exc, [tracks |-> [items |-> <<SpotifyTrack>>]]}

---------------------------------------------------------------------------
(* State *)

VARIABLES
    music_titles,           \* fetch_all's argument
    i,                      \* position of fetch_all's loop in music_titles
    results,                \* fetch_all's results
    spotify_client_id,      \* self.spotify_client_id
    spotify_client_secret,  \* self.spotify_client_secret
    spotify_token,          \* self.spotify_token
    spotify_token_expires,  \* self.spotify_token_expires: 0, or 1 for a later time
    pc,                     \* the statement the run is at
    frame,                  \* the locals of the current fetch_metadata call
    mb,                     \* the locals of fetch_work_details_from_mb, and what it requested
    entity_id,              \* fetch_composition_year_from_wikidata's entity_id ("": none)
    log,                    \* the events (pauses, requests) of the current fetch_metadata call
    resp,                   \* the response the last step received
    ret,                    \* what the last fetch_metadata call returned
    year_lines,             \* the year lines create_pdf printed on the back cards
    mirror_metadata,        \* PDFGenerator.mirror_metadata
    rows,                   \* PDFGenerator.rows
    cols,                   \* PDFGenerator.cols
    platform,               \* PDFGenerator.platform
    elements                \* the tables and page breaks create_pdf built

vars ==
    <<music_titles, i, results, spotify_client_id, spotify_client_secret, spotify_token,
      spotify_token_expires, pc, frame, mb, entity_id, log, resp, ret, year_lines,
      mirror_metadata, rows, cols, platform, elements>>

\* What no step of the fetcher touches: the generator and what it built.
pdf_vars == <<year_lines, mirror_metadata, rows, cols, platform, elements>>

\* The defaults of --rows and --cols.
DefaultRows == 4

DefaultCols == 3

\* main run without --no-mirror, --rows, --cols and --platform.
DefaultGenerator ==
    /\ mirror_metadata = TRUE
    /\ rows = DefaultRows
    /\ cols = DefaultCols
    /\ platform = "apple"

\* An event of the log: a pause with its seconds, or a request to an
\* endpoint with the text it asks for (the search term, the title variant).
SleepEvent(seconds) == [ep |-> "sleep", arg |-> seconds]

S_1_2 == <<"1", ".", "2">>

S_1_0 == <<"1", ".", "0">>

RequestEvent(endpoint, arg) == [ep |-> endpoint, arg |-> arg]

\* The service behind an endpoint.
ServiceOf(endpoint) ==
    CASE endpoint = "itunes_search" -> "catalog"
      [] endpoint \in {"mb_recording_search", "mb_recording", "mb_work", "mb_work_search"} ->
             "encyclopedia"
      [] endpoint \in {"wikipedia_search", "wikipedia_pageprops", "wikidata_entity"} ->
             "knowledge"
      [] endpoint \in {"spotify_token", "spotify_search"} -> "streaming"
      [] OTHER -> "none"

In(full, thin) == IF Len(music_titles) > 1 THEN thin ELSE full

Init ==
    /\ music_titles \in QueryLists
    /\ \E c \in SpotifyConfigs :
           /\ spotify_client_id = c.client_id
           /\ spotify_client_secret = c.client_secret
    /\ i = 1
    /\ results = <<>>
    /\ spotify_token = None
    /\ spotify_token_expires = 0
    /\ pc = "loop"
    /\ frame = NoneD
    /\ mb = NoneD
    /\ entity_id = ""
    /\ log = <<>>
    /\ resp = NoneD
    /\ ret = NoneD
    /\ year_lines = <<>>
    /\ elements = <<>>
    /\ DefaultGenerator

\* requests.get / requests.post
Request(endpoint, arg) == log' = Append(log, RequestEvent(endpoint, arg))

\* time.sleep(...) before a request
AfterSleep ==
    [mb_rec_sleep |-> "mb_rec_req", mb_det_sleep |-> "mb_det_req",
     mb_work_sleep |-> "mb_work_req", fb_search_sleep |-> "fb_search_req",
     fb_work_sleep |-> "fb_work_req", wiki_search_sleep |-> "wiki_search_req",
     wiki_props_sleep |-> "wiki_props_req", wiki_entity_sleep |-> "wiki_entity_req"]

\* time.sleep(1.2) before the encyclopedia, time.sleep(1.0) before the
\* knowledge graph
SleepSeconds(at) ==
    IF at \in {"wiki_search_sleep", "wiki_props_sleep", "wiki_entity_sleep"} THEN S_1_0
    ELSE S_1_2

Sleep ==
    /\ pc \in DOMAIN AfterSleep
    /\ UNCHANGED pdf_vars
    /\ pc' = AfterSleep[pc]
    /\ log' = Append(log, SleepEvent(SleepSeconds(pc)))
    /\ resp' = NoneD
    /\ UNCHANGED <<music_titles, i, results, spotify_client_id, spotify_client_secret,
                   spotify_token, spotify_token_expires, frame, mb, entity_id, ret>>

---------------------------------------------------------------------------
(* fetch_all and fetch_metadata: the catalog search *)

\* What the try block of fetch_metadata does with the catalog's answer:
\* "error" (RequestException, caught), "raise" (not caught: KeyError,
\* IndexError or TypeError at lines 411-415, AttributeError at line 418 for
\* a top result that is null), "none" (no results) or "result".
CatalogOutcome(r) ==
    IF IsExc(r) THEN "error"
    ELSE IF "resultCount" \notin DOMAIN r THEN "raise"
    ELSE IF r.resultCount = 0 THEN "none"
    ELSE IF "results" \notin DOMAIN r THEN "raise"
    ELSE IF r.results = NoneL \/ r.results = <<>> THEN "raise"
    ELSE IF r.results[1] = NoneD THEN "raise"
    ELSE "result"

\* The locals of fetch_metadata after reading the top result (page_key: the
\* page the knowledge-graph lookup chose; spotify_data: NoneD also while it
\* is unassigned). There are none (NoneD) for a top
\* result that is null: result.get raises at line 418.
NewFrame(query, result) ==
    IF result = NoneD THEN NoneD
    ELSE [query |-> query,
          result |-> result,
          recording_year |-> RecordingYear(result),
          title |-> Get(result, "trackName", UnknownTitle),
          artist |-> Get(result, "artistName", UnknownArtist),
          composer |-> Get(result, "composer", None),
          mb_data |-> NoneD,
          final_composer |-> None,
          composition_year |-> None,
          page_key |-> None,
          spotify_data |-> NoneD,
          spotify_link |-> <<>>]

\* FinishQuery with fetch_all appending whatever fetch_metadata returned.
FinishQuery_AppendAlways(data) ==
    /\ ret' = data
    /\ results' = Append(results, data)
    /\ i' = i + 1
    /\ pc' = "loop"

\* fetch_metadata returns data to fetch_all, which appends it if it is truthy.
FinishQuery(data) ==
    /\ ret' = data
    /\ results' = IF data /= NoneD THEN Append(results, data) ELSE results
    /\ i' = i + 1
    /\ pc' = "loop"

ITunesSearch ==
    /\ pc = "loop"
    /\ UNCHANGED pdf_vars
    /\ i <= Len(music_titles)
    /\ \E r \in In(ITunesResponses, ThinITunesResponses) :
           /\ resp' = r
           /\ log' = <<RequestEvent("itunes_search", music_titles[i])>>
           /\ mb' = NoneD
           /\ entity_id' = ""
           /\ CASE CatalogOutcome(r) = "result" ->
                       /\ frame' = NewFrame(music_titles[i], r.results[1])
                       /\ pc' = "mb_enter"
                       /\ UNCHANGED <<i, results, ret>>
                [] CatalogOutcome(r) = "raise" ->
                       /\ frame' = NoneD
                       /\ pc' = "raised"
                       /\ UNCHANGED <<i, results, ret>>
                [] OTHER ->
                       /\ frame' = NoneD
                       /\ FinishQuery(NoneD)
    /\ UNCHANGED <<music_titles, spotify_client_id, spotify_client_secret, spotify_token,
                   spotify_token_expires>>

FetchAllReturn ==
    /\ pc = "loop"
    /\ UNCHANGED pdf_vars
    /\ i > Len(music_titles)
    /\ pc' = "returned"
    /\ UNCHANGED <<music_titles, i, results, spotify_client_id, spotify_client_secret,
                   spotify_token, spotify_token_expires, frame, mb, entity_id, log,
                   resp, ret>>


---------------------------------------------------------------------------
(* fetch_work_details_from_mb *)

\* The locals after the artist query and the title variants are built:
\* v is the variant the loop is at, w the candidate of the fallback, seen
\* the work responses of the candidates examined so far.
NewMB(title, artist) ==
    [artist_query |-> ArtistQuery(Artists(artist)),
     title_variants |-> TitleVariants(title),
     v |-> 1,
     works |-> <<>>,
     w |-> 1,
     seen |-> <<>>]

\* The head of the variant loop, and what follows the loop.
VariantLoop(m, original_query) ==
    IF m.v <= Len(m.title_variants) /\ m.artist_query /= <<>> THEN "mb_rec_sleep"
    ELSE IF Truthy(original_query) THEN "fb_search_sleep"
    ELSE "mb_done"

\* The head of the fallback's loop over the candidates.
\* A candidate that is null or has no "id" raises at line 371, which ends
\* the fallback.
FallbackLoop(m) ==
    IF m.w > Len(m.works) THEN "mb_done"
    ELSE IF m.works[m.w] = NoneD \/ "id" \notin DOMAIN m.works[m.w] THEN "mb_done"
    ELSE "fb_work_sleep"

\* work_id after lines 306-310: the id of the first work relation, or ""
\* (None): there is no work relation, or the loop raised before work_id
\* was assigned (rec_details, the list, a relation before the work or the
\* work is null, or the relation has no "work", the work no "id"); the
\* variant's except catches that. Either way the variant is given up.
WorkIdOf(rec_details) ==
    LET relations == IF rec_details = NoneD THEN NoneL
                     ELSE Get(rec_details, "relations", <<>>)
        stops(k) == relations[k] = NoneD \/ Get(relations[k], "target-type", "") = "work"
    IN  IF relations = NoneL THEN ""
        ELSE IF \E k \in 1..Len(relations) : stops(k)
        THEN LET k == CHOOSE j \in 1..Len(relations) :
                          stops(j) /\ \A n \in 1..(j - 1) : ~stops(n)
             IN  IF relations[k] = NoneD THEN ""
                 ELSE IF "work" \notin DOMAIN relations[k] THEN ""
                 ELSE IF "id" \notin DOMAIN relations[k].work THEN ""
                 ELSE relations[k].work.id
        ELSE ""

\* The variant failed (continue, or an exception caught in the loop).
NextVariant ==
    LET m == [mb EXCEPT !.v = @ + 1]
    IN  /\ mb' = m
        /\ pc' = VariantLoop(m, frame.query)
        /\ frame' = frame

\* fetch_work_details_from_mb returns data.
MBReturn(m, data) ==
    /\ mb' = m
    /\ frame' = [frame EXCEPT !.mb_data = data]
    /\ pc' = "mb_done"

\* Lines 246-283: None for artist or title raises (TypeError, AttributeError)
\* outside every try.
MBPrepare ==
    /\ pc = "mb_enter"
    /\ UNCHANGED pdf_vars
    /\ IF frame.artist = None \/ frame.title = None
       THEN /\ pc' = "raised"
            /\ UNCHANGED mb
       ELSE LET m == NewMB(frame.title, frame.artist)
            IN  /\ mb' = m
                /\ pc' = VariantLoop(m, frame.query)
    /\ resp' = NoneD
    /\ UNCHANGED <<music_titles, i, results, spotify_client_id, spotify_client_secret,
                   spotify_token, spotify_token_expires, frame, entity_id, log, ret>>

\* Lines 291-295: the search found a recording and it has an id; otherwise
\* continue, or an exception (data or the recording is null, no "id").
HasRecording(data) ==
    LET recordings == Get(data, "recordings", <<>>)
    IN  /\ data /= NoneD
        /\ recordings /= NoneL /\ recordings /= <<>>
        /\ recordings[1] /= NoneD
        /\ "id" \in DOMAIN recordings[1]

MBRecordingSearch ==
    /\ pc = "mb_rec_req"
    /\ UNCHANGED pdf_vars
    /\ Request("mb_recording_search", mb.title_variants[mb.v])
    /\ \E r \in In(RecordingSearchResponses, ThinRecordingSearchResponses) :
           /\ resp' = r
           /\ IF IsExc(r) \/ ~HasRecording(r)
              THEN NextVariant
              ELSE /\ pc' = "mb_det_sleep"
                   /\ UNCHANGED <<mb, frame>>
    /\ UNCHANGED <<music_titles, i, results, spotify_client_id, spotify_client_secret,
                   spotify_token, spotify_token_expires, entity_id, ret>>

MBRecordingDetails ==
    /\ pc = "mb_det_req"
    /\ UNCHANGED pdf_vars
    /\ Request("mb_recording", <<>>)
    /\ \E r \in In(RecordingDetailsResponses, ThinRecordingDetailsResponses) :
           /\ resp' = r
           /\ IF IsExc(r) \/ WorkIdOf(r) = ""
              THEN NextVariant
              ELSE /\ pc' = "mb_work_sleep"
                   /\ UNCHANGED <<mb, frame>>
    /\ UNCHANGED <<music_titles, i, results, spotify_client_id, spotify_client_secret,
                   spotify_token, spotify_token_expires, entity_id, ret>>

MBWorkDetails ==
    /\ pc = "mb_work_req"
    /\ UNCHANGED pdf_vars
    /\ Request("mb_work", <<>>)
    /\ \E r \in In(WorkDetailsResponses, ThinWorkDetailsResponses) :
           /\ resp' = r
           /\ IF IsExc(r) THEN NextVariant
              ELSE IF VariantResult(r) = NoneD THEN NextVariant
              ELSE MBReturn(mb, VariantResult(r))
    /\ UNCHANGED <<music_titles, i, results, spotify_client_id, spotify_client_secret,
                   spotify_token, spotify_token_expires, entity_id, ret>>

MBWorkSearch ==
    /\ pc = "fb_search_req"
    /\ UNCHANGED pdf_vars
    /\ Request("mb_work_search", frame.query)
    /\ \E r \in In(WorkSearchResponses, ThinWorkSearchResponses) :
           /\ resp' = r
           /\ IF IsExc(r) \/ r = NoneD \/ Get(r, "works", <<>>) = NoneL
              THEN MBReturn(mb, NoneD)
              ELSE LET m == [mb EXCEPT !.works = Get(r, "works", <<>>)]
                   IN  /\ mb' = m
                       /\ pc' = FallbackLoop(m)
                       /\ frame' = frame
    /\ UNCHANGED <<music_titles, i, results, spotify_client_id, spotify_client_secret,
                   spotify_token, spotify_token_expires, entity_id, ret>>

\* What the fallback does with a candidate's work: "accept", "reject" (the
\* loop goes on) or "abort" (an exception, caught by the try around the
\* whole fallback).
CandidateOutcome(r, artist, original_query) ==
    IF IsExc(r) THEN "abort"
    ELSE IF ComposerOf(r) = Exn THEN "abort"
    ELSE IF Truthy(ComposerOf(r)) /\ Accepts(ComposerOf(r), artist, original_query)
         THEN "accept"
    ELSE "reject"

MBFallbackWork ==
    /\ pc = "fb_work_req"
    /\ UNCHANGED pdf_vars
    /\ Request("mb_work", <<>>)
    /\ \E r \in In(FallbackWorkResponses, ThinFallbackWorkResponses) :
           /\ resp' = r
           /\ LET m == [mb EXCEPT !.seen = Append(@, r)]
                  o == CandidateOutcome(r, frame.artist, frame.query)
              IN  CASE o = "accept" ->
                           MBReturn(m, [composer |-> ComposerOf(r), year |-> None])
                    [] o = "abort" -> MBReturn(m, NoneD)
                    [] OTHER ->
                           /\ mb' = [m EXCEPT !.w = @ + 1]
                           /\ pc' = FallbackLoop([m EXCEPT !.w = @ + 1])
                           /\ frame' = frame
    /\ UNCHANGED <<music_titles, i, results, spotify_client_id, spotify_client_secret,
                   spotify_token, spotify_token_expires, entity_id, ret>>


---------------------------------------------------------------------------
(* fetch_metadata: after the encyclopedia lookup *)

\* AfterLookup with the streaming lookup made before the knowledge-graph
\* lookup.
AfterLookup_StreamingFirst(stage, title, composition_year) ==
    CASE stage = "mb" -> "spotify_enter"
      [] stage = "wiki" -> "build"
      [] OTHER ->
             IF ~Truthy(composition_year) /\ Truthy(title) THEN "wiki_search_sleep"
             ELSE "build"

\* The order of the lookups after the encyclopedia (lines 440-449): the
\* knowledge graph if there is still no composition year (it returns None at
\* once for an empty title), then the streaming service, then the record.
AfterLookup(stage, title, composition_year) ==
    CASE stage = "mb" ->
             IF ~Truthy(composition_year) /\ Truthy(title) THEN "wiki_search_sleep"
             ELSE "spotify_enter"
      [] stage = "wiki" -> "spotify_enter"
      [] OTHER -> "build"

\* Lines 429-442: merge mb_data.
Merge ==
    /\ pc = "mb_done"
    /\ UNCHANGED pdf_vars
    /\ LET final_composer == FinalComposer(frame.composer, frame.mb_data)
           composition_year == MBYear(frame.mb_data)
       IN  /\ frame' = [frame EXCEPT !.final_composer = final_composer,
                                     !.composition_year = composition_year]
           /\ pc' = AfterLookup("mb", frame.title, composition_year)
    /\ mb' = NoneD
    /\ resp' = NoneD
    /\ UNCHANGED <<music_titles, i, results, spotify_client_id, spotify_client_secret,
                   spotify_token, spotify_token_expires, entity_id, log, ret>>

\* fetch_composition_year_from_wikidata returns year.
WikiReturn(year) ==
    /\ frame' = [frame EXCEPT !.composition_year = year]
    /\ pc' = AfterLookup("wiki", frame.title, year)

\* The keywords of a musical work in a page's description.
DescriptionKeywords ==
    {<<"o", "p", "e", "r", "a">>,
     <<"s", "y", "m", "p", "h", "o", "n", "y">>,
     <<"c", "o", "m", "p", "o", "s", "i", "t", "i", "o", "n">>,
     <<"s", "o", "n", "g">>,
     <<"a", "l", "b", "u", "m">>,
     <<"m", "u", "s", "i", "c", "a", "l", " ", "w", "o", "r", "k">>}

\* The keywords of a composition in a page's excerpt.
ExcerptKeywords ==
    {<<"c", "o", "m", "p", "o", "s", "e", "d">>,
     <<"c", "o", "m", "p", "o", "s", "i", "t", "i", "o", "n">>,
     <<"w", "r", "i", "t", "t", "e", "n">>,
     <<"a", "l", "b", "u", "m">>}

\* score_page: 3 for a keyword in the description, 2 for a keyword in the
\* excerpt, 4 for every part of the composer's name longer than 3 characters
\* found in the description, the title or the excerpt. -1: the page is null
\* and page.get raises.
ScorePage(page, composer) ==
    IF page = NoneD THEN -1 ELSE
    LET desc == Lower(Or(Get(page, "description", None), <<>>))
        title_text == Lower(Or(Get(page, "title", None), <<>>))
        excerpt == Lower(Or(Get(page, "excerpt", None), <<>>))
        composer_parts == IF Truthy(composer) THEN SplitWS(Lower(composer)) ELSE <<>>
        found == {k \in 1..Len(composer_parts) :
                     /\ Len(composer_parts[k]) > 3
                     /\ \/ Contains(desc, composer_parts[k])
                        \/ Contains(title_text, composer_parts[k])
                        \/ Contains(excerpt, composer_parts[k])}
    IN  (IF \E kw \in DescriptionKeywords : Contains(desc, kw) THEN 3 ELSE 0)
        + (IF \E kw \in ExcerptKeywords : Contains(excerpt, kw) THEN 2 ELSE 0)
        + 4 * Cardinality(found)

\* BestPage with the latest page among those of the highest score.
BestPage_Latest(pages, composer) ==
    pages[CHOOSE k \in 1..Len(pages) :
              /\ \A j \in 1..Len(pages) : ScorePage(pages[j], composer) <= ScorePage(pages[k], composer)
              /\ \A j \in (k + 1)..Len(pages) : ScorePage(pages[j], composer) < ScorePage(pages[k], composer)]

\* pages_sorted[0]: the page of the highest score, the earliest among equals
\* (sorted is stable, also with reverse=True).
BestPage(pages, composer) ==
    pages[CHOOSE k \in 1..Len(pages) :
              /\ \A j \in 1..Len(pages) : ScorePage(pages[j], composer) <= ScorePage(pages[k], composer)
              /\ \A j \in 1..(k - 1) : ScorePage(pages[j], composer) < ScorePage(pages[k], composer)]

\* The composer the knowledge-graph lookup is called with: final_composer or
\* artist.
WikiComposer(f) == Or(f.final_composer, f.artist)

\* search_query: the composer, if any, and the title.
SearchQuery(title, composer) ==
    IF Truthy(composer) THEN composer \o <<" ">> \o title ELSE title

\* wikipedia_title = page_key.replace("_", " ")
WikipediaTitle(page_key) ==
    [k \in 1..Len(page_key) |-> IF page_key[k] = "_" THEN " " ELSE page_key[k]]

\* Lines 143-172: there are pages and they can be scored; otherwise the
\* lookup returns None (no pages, or an exception: data or a page is null).
HasPages(data) ==
    LET pages == Get(data, "pages", <<>>)
    IN  /\ data /= NoneD
        /\ pages /= NoneL /\ pages /= <<>>
        /\ \A k \in 1..Len(pages) : pages[k] /= NoneD

WikipediaSearch ==
    /\ pc = "wiki_search_req"
    /\ UNCHANGED pdf_vars
    /\ Request("wikipedia_search", SearchQuery(frame.title, WikiComposer(frame)))
    /\ \E r \in In(WikipediaSearchResponses, ThinWikipediaSearchResponses) :
           /\ resp' = r
           /\ IF IsExc(r) THEN WikiReturn(None)
              ELSE IF ~HasPages(r) THEN WikiReturn(None)
              ELSE IF ~Truthy(Get(BestPage(r.pages, WikiComposer(frame)), "key", None))
              THEN WikiReturn(None)
              ELSE /\ pc' = "wiki_props_sleep"
                   /\ frame' = [frame EXCEPT
                                    !.page_key = BestPage(r.pages, WikiComposer(frame)).key]
    /\ UNCHANGED <<music_titles, i, results, spotify_client_id, spotify_client_secret,
                   spotify_token, spotify_token_expires, mb, entity_id, ret>>

\* entity_id after lines 195-200: the first truthy pageprops.wikibase_item
\* of the pages, or "" (None): no page has one, or the loop raised before
\* it found one (the response, its query, the pages, a page or its
\* pageprops is null); the lookup's except catches that and returns None.
EntityIdOf(r) ==
    LET query == IF r = NoneD THEN NoneD ELSE Get(r, "query", [id |-> "none"])
        pages == IF query = NoneD THEN NoneL ELSE Get(query, "pages", <<>>)
        raises(p) == p = NoneD \/ Get(p, "pageprops", [id |-> "none"]) = NoneD
        item(p) == IF raises(p) THEN ""
                   ELSE Get(Get(p, "pageprops", [id |-> "none"]), "wikibase_item", "")
        stops(k) == raises(pages[k]) \/ item(pages[k]) /= ""
    IN  IF pages = NoneL THEN ""
        ELSE IF \E k \in 1..Len(pages) : stops(k)
        THEN item(pages[CHOOSE k \in 1..Len(pages) :
                            stops(k) /\ \A n \in 1..(k - 1) : ~stops(n)])
        ELSE ""

WikipediaPageProps ==
    /\ pc = "wiki_props_req"
    /\ UNCHANGED pdf_vars
    /\ Request("wikipedia_pageprops", WikipediaTitle(frame.page_key))
    /\ \E r \in In(PagePropsResponses, ThinPagePropsResponses) :
           /\ resp' = r
           /\ IF IsExc(r) THEN WikiReturn(None) /\ UNCHANGED entity_id
              ELSE IF EntityIdOf(r) = "" THEN WikiReturn(None) /\ UNCHANGED entity_id
              ELSE /\ entity_id' = EntityIdOf(r)
                   /\ pc' = "wiki_entity_sleep"
                   /\ frame' = frame
    /\ UNCHANGED <<music_titles, i, results, spotify_client_id, spotify_client_secret,
                   spotify_token, spotify_token_expires, mb, ret>>

\* Lines 212-240: the year of the entity, or None.
YearOfEntity(r, id) ==
    LET entities == Get(r, "entities", [none |-> TRUE])
    IN  IF id \notin DOMAIN entities THEN None
        ELSE IF "claims" \notin DOMAIN entities[id] THEN None
        ELSE EntityYear(entities[id].claims)

WikidataEntity ==
    /\ pc = "wiki_entity_req"
    /\ UNCHANGED pdf_vars
    /\ Request("wikidata_entity", <<>>)
    /\ \E r \in In(EntityResponses, ThinEntityResponses) :
           /\ resp' = r
           /\ IF IsExc(r) THEN WikiReturn(None) ELSE WikiReturn(YearOfEntity(r, entity_id))
    /\ UNCHANGED <<music_titles, i, results, spotify_client_id, spotify_client_secret,
                   spotify_token, spotify_token_expires, mb, entity_id, ret>>

---------------------------------------------------------------------------
(* fetch_metadata: the streaming service *)

\* Line 446: the lookup is made only with a configured client id.
SpotifyConfigured(client_id) == client_id /= "" /\ client_id /= PlaceholderClientId

\* Where fetch_metadata goes on after the streaming lookup.
SpotifyDone == AfterLookup("spotify", frame.title, frame.composition_year)

\* Lines 444-449 and 41-47: skip the lookup, use the cached token (fresh:
\* time.time() < spotify_token_expires), give up without credentials, or
\* request a token.
SpotifyLookup ==
    /\ pc = "spotify_enter"
    /\ UNCHANGED pdf_vars
    /\ \E fresh \in {b \in BOOLEAN : b => spotify_token_expires = 1} :
           pc' = IF ~SpotifyConfigured(spotify_client_id) THEN SpotifyDone
                 ELSE IF Truthy(spotify_token) /\ fresh THEN "spotify_search_req"
                 ELSE IF spotify_client_id = "" \/ spotify_client_secret = "" THEN SpotifyDone
                 ELSE "spotify_token_req"
    /\ resp' = NoneD
    /\ UNCHANGED <<music_titles, i, results, spotify_client_id, spotify_client_secret,
                   spotify_token, spotify_token_expires, frame, mb, entity_id, log,
                   ret>>

\* Lines 49-69 and 73-75: access_token is stored before expires_in is read;
\* a token that is null or empty is returned and ends the lookup.
SpotifyToken ==
    /\ pc = "spotify_token_req"
    /\ UNCHANGED pdf_vars
    /\ Request("spotify_token", <<>>)
    /\ \E r \in In(SpotifyTokenResponses, ThinSpotifyTokenResponses) :
           /\ resp' = r
           /\ IF IsExc(r) \/ "access_token" \notin DOMAIN r
              THEN /\ pc' = SpotifyDone
                   /\ UNCHANGED <<spotify_token, spotify_token_expires>>
              ELSE IF "expires_in" \notin DOMAIN r
              THEN /\ pc' = SpotifyDone
                   /\ spotify_token' = r.access_token
                   /\ UNCHANGED spotify_token_expires
              ELSE IF ~Truthy(r.access_token)
              THEN /\ pc' = SpotifyDone
                   /\ spotify_token' = r.access_token
                   /\ spotify_token_expires' = 1
              ELSE /\ pc' = "spotify_search_req"
                   /\ spotify_token' = r.access_token
                   /\ spotify_token_expires' = 1
    /\ UNCHANGED <<music_titles, i, results, spotify_client_id, spotify_client_secret,
                   frame, mb, entity_id, ret>>

\* ", ".join(names)
RECURSIVE JoinComma(_)
JoinComma(names) ==
    IF names = <<>> THEN <<>>
    ELSE IF Len(names) = 1 THEN names[1]
    ELSE names[1] \o <<",", " ">> \o JoinComma(Tail(names))

\* Lines 85-105: what fetch_spotify_metadata returns, the dict built from
\* the first track, or NoneD (None): the request failed, there is no track,
\* or building the dict raised (a missing key, a null object or list, an
\* artist's name that is null).
SpotifyData(r) ==
    LET found == IF r = NoneD THEN NoneD ELSE Get(r, "tracks", [id |-> "none"])
        tracks == IF found = NoneD THEN NoneL ELSE Get(found, "items", <<>>)
        track == tracks[1]
        Named(artist) == /\ artist /= NoneD /\ "name" \in DOMAIN artist
                         /\ artist.name /= None
    IN  IF IsExc(r) THEN NoneD
        ELSE IF tracks = NoneL \/ tracks = <<>> THEN NoneD
        ELSE IF {"id", "external_urls", "name", "artists", "album"} \subseteq DOMAIN track
                /\ "spotify" \in DOMAIN track.external_urls
                /\ track.artists /= NoneL
                /\ \A k \in 1..Len(track.artists) : Named(track.artists[k])
                /\ "name" \in DOMAIN track.album
        THEN [id |-> track.id,
              url |-> track.external_urls.spotify,
              name |-> track.name,
              artists |-> JoinComma([k \in 1..Len(track.artists) |-> track.artists[k].name]),
              album |-> track.album.name]
        ELSE NoneD

SpotifySearch ==
    /\ pc = "spotify_search_req"
    /\ UNCHANGED pdf_vars
    /\ Request("spotify_search", frame.query)
    /\ \E r \in In(SpotifySearchResponses, ThinSpotifySearchResponses) :
           /\ resp' = r
           /\ frame' = [frame EXCEPT
                            !.spotify_data = SpotifyData(r),
                            !.spotify_link =
                                IF SpotifyData(r) /= NoneD THEN SpotifyData(r).url ELSE <<>>]
    /\ pc' = SpotifyDone
    /\ UNCHANGED <<music_titles, i, results, spotify_client_id, spotify_client_secret,
                   spotify_token, spotify_token_expires, mb, entity_id, ret>>

\* Lines 451-464, and fetch_all's append.
ReturnRecord ==
    /\ pc = "build"
    /\ UNCHANGED pdf_vars
    /\ FinishQuery(Record(frame))
    /\ resp' = NoneD
    /\ UNCHANGED <<music_titles, spotify_client_id, spotify_client_secret, spotify_token,
                   spotify_token_expires, frame, mb, entity_id, log>>

---------------------------------------------------------------------------

---------------------------------------------------------------------------
(* PDFGenerator.create_pdf: the year lines of the back cards *)

\* YearLine without the swap of a later composition year.
YearLine_NoSwap(item) ==
    LET comp == Or(Get(item, "composition_year", None), <<>>)
        rec == Or(Get(item, "recording_year", None), <<>>)
    IN  IF Truthy(comp)
        THEN [bold |-> comp, rec |-> IF Truthy(rec) /\ comp /= rec THEN rec ELSE None]
        ELSE [bold |-> rec, rec |-> None]

\* The years of one back card: the year printed in bold and the year of the
\* "(rec. ...)" line, None when the card has no such line.
YearLine(item) ==
    LET composition_year == Or(Get(item, "composition_year", None), <<>>)
        recording_year == Or(Get(item, "recording_year", None), <<>>)
        swap == /\ Truthy(composition_year) /\ Truthy(recording_year)
                /\ IntParses(composition_year) /\ IntParses(recording_year)
                /\ IntOf(composition_year) > IntOf(recording_year)
        comp == IF swap THEN recording_year ELSE composition_year
        rec == IF swap THEN composition_year ELSE recording_year
    IN  IF Truthy(comp)
        THEN [bold |-> comp, rec |-> IF Truthy(rec) /\ comp /= rec THEN rec ELSE None]
        ELSE [bold |-> rec, rec |-> None]

\* An empty cell of a table ("").
EmptyCell == [empty |-> TRUE]

\* Image(qr_buffer): the QR code of a link.
QrImage(qr_link) == [qr |-> qr_link]

\* Paragraph(metadata_text): the text of a back card.
MetadataPara(item) ==
    [title |-> item.title, year_line |-> YearLine(item), artist |-> item.artist,
     album |-> item.album, composer |-> item.composer, genre |-> item.genre]

PageBreak == [page_break |-> TRUE]

ItemsPerPage == cols * rows

\* chunk = items[i:i + ITEMS_PER_PAGE], for the n-th value of i (n from 0)
Chunk(items, n) ==
    SubSeq(items, n * ItemsPerPage + 1, Min(Len(items), (n + 1) * ItemsPerPage))

\* The cell of the front page for row r and column c (both from 0).
FrontCell(chunk, r, c) ==
    LET idx == r * cols + c
    IN  IF idx < Len(chunk)
        THEN LET item == chunk[idx + 1]
                 link_key == platform \o "_link"
                 qr_link == Get(item, link_key, None)
             IN  IF ~Truthy(qr_link) THEN EmptyCell ELSE QrImage(qr_link)
        ELSE EmptyCell

\* front_data: row by row, the columns in range(COLS).
FrontData(chunk) ==
    [r \in 1..rows |-> [n \in 1..cols |-> FrontCell(chunk, r - 1, n - 1)]]

\* ColRange without mirroring.
ColRange_NeverMirrored == [n \in 1..cols |-> n - 1]

\* col_range: range(COLS - 1, -1, -1) when mirroring, else range(COLS).
ColRange == IF mirror_metadata THEN [n \in 1..cols |-> cols - n] ELSE [n \in 1..cols |-> n - 1]

\* The cell of the back page for row r and column c (both from 0).
BackCell(chunk, r, c) ==
    LET idx == r * cols + c
    IN  IF idx < Len(chunk) THEN MetadataPara(chunk[idx + 1]) ELSE EmptyCell

\* back_data: row by row, the cells appended in the order of col_range.
BackData(chunk) ==
    [r \in 1..rows |-> [n \in 1..cols |-> BackCell(chunk, r - 1, ColRange[n])]]

\* items = [item for item in music_data_list if item]: the entries that are
\* None or an empty dict are dropped.
Items(music_data_list) ==
    SelectSeq(music_data_list, LAMBDA item : item /= NoneD /\ item /= <<>>)

\* elements: per chunk of the items the front table, a page break, the back
\* table, a page break.
Elements(music_data_list) ==
    LET items == Items(music_data_list)
        chunks == (Len(items) + ItemsPerPage - 1) \div ItemsPerPage
    IN  [e \in 1..(4 * chunks) |->
            LET chunk == Chunk(items, (e - 1) \div 4)
            IN  CASE (e - 1) % 4 = 0 -> FrontData(chunk)
                  [] (e - 1) % 4 = 2 -> BackData(chunk)
                  [] OTHER -> PageBreak]

\* main: the records fetch_all returned, if any, go to create_pdf, which
\* prints one back card per item.
CreatePdf ==
    /\ pc = "returned"
    /\ results /= <<>>
    /\ year_lines' = [k \in 1..Len(Items(results)) |-> YearLine(Items(results)[k])]
    /\ elements' = Elements(results)
    /\ pc' = "printed"
    /\ UNCHANGED <<music_titles, i, results, spotify_client_id, spotify_client_secret,
                   spotify_token, spotify_token_expires, frame, mb, entity_id, log,
                   resp, ret, mirror_metadata, rows, cols, platform>>

---------------------------------------------------------------------------

Next ==
    \/ ITunesSearch
    \/ FetchAllReturn
    \/ Sleep
    \/ MBPrepare
    \/ MBRecordingSearch
    \/ MBRecordingDetails
    \/ MBWorkDetails
    \/ MBWorkSearch
    \/ MBFallbackWork
    \/ Merge
    \/ WikipediaSearch
    \/ WikipediaPageProps
    \/ WikidataEntity
    \/ SpotifyLookup
    \/ SpotifyToken
    \/ SpotifySearch
    \/ ReturnRecord
    \/ CreatePdf

Spec == Init /\ [][Next]_vars


---------------------------------------------------------------------------
(* Properties *)

\* The positions of the log that are requests to a service.
RequestsTo(service) == {k \in 1..Len(log) : ServiceOf(log[k].ep) = service}

\* The last fetch_metadata call returned a record (its locals are still in
\* frame).
ReturnedRecord == pc \in {"loop", "returned", "printed"} /\ frame /= NoneD

\* C1: fetch_all never aborts on a lookup that goes wrong: whatever the
\* services answer, no exception leaves fetch_metadata, so every query of the
\* list is attempted and fetch_all returns.
C1_FetchAllNeverAborts == pc /= "raised"

\* C2: in every record fetch_metadata returned (the records fetch_all
\* returns), if the composition year and the recording year both parse as
\* integers, the composition year is not the later one.
C2_RecordYearsOrdered ==
    \A k \in 1..Len(results) :
        (IntParses(results[k].composition_year) /\ IntParses(results[k].recording_year))
            => IntOf(results[k].composition_year) <= IntOf(results[k].recording_year)

\* C3: in the events of a call, every request to a remote service comes
\* directly after a pause of 1.0 or 1.2 seconds.
C3_EveryRequestAfterSleep ==
    \A k \in 1..Len(log) :
        log[k].ep /= "sleep" =>
            (k > 1 /\ log[k - 1] \in {SleepEvent(S_1_0), SleepEvent(S_1_2)})

\* C4 as stated: a catalog result that lists a composer leads to no request
\* to the encyclopedia.
C4_LookupOnlyWithoutComposer ==
    (frame /= NoneD /\ Truthy(frame.composer)) => RequestsTo("encyclopedia") = {}

\* C4 amended: the encyclopedia lookup is made for every catalog result,
\* whether or not the catalog lists a composer (its requests are issued
\* whenever there is an artist to search for or a non-empty query); it is a
\* fallback for the composer only: when the catalog lists a composer, the
\* record's composer is the catalog's, whatever the encyclopedia found.
C4_LookupAlwaysComposerFallback ==
    ReturnedRecord =>
        /\ (RequestsTo("encyclopedia") /= {})
               <=> (Artists(frame.artist) /= <<>> \/ Truthy(frame.query))
        /\ Truthy(frame.composer) => ret.composer = frame.composer

\* A record was returned for a catalog result with a composer, after the
\* encyclopedia was asked and found another composer.
C4_Witness ==
    /\ ReturnedRecord
    /\ Truthy(frame.composer)
    /\ RequestsTo("encyclopedia") /= {}
    /\ frame.mb_data /= NoneD
    /\ frame.mb_data.composer /= frame.composer

\* C5: when the catalog search answers with zero results, fetch_metadata
\* returns None, the catalog request is the only request of the call, and
\* fetch_all goes on to the next query without adding a record.
C5_ZeroResultsNoRecord ==
    [][(pc = "loop" /\ i <= Len(music_titles) /\ ~IsExc(resp')
            /\ "resultCount" \in DOMAIN resp' /\ resp'.resultCount = 0)
        => /\ ret' = NoneD
           /\ log' = <<RequestEvent("itunes_search", music_titles[i])>>
           /\ results' = results
           /\ i' = i + 1
           /\ pc' = "loop"]_vars

\* The second query of a list got zero results after the first one got a
\* record.
C5_Witness ==
    /\ pc = "loop"
    /\ i = 3
    /\ "resultCount" \in DOMAIN resp
    /\ resp.resultCount = 0
    /\ ret = NoneD
    /\ Len(results) = 1
    /\ Len(log) = 1

\* The catalog's top result has no null where the title or the artist
\* should be.
WellFormed(result) ==
    /\ Get(result, "trackName", UnknownTitle) /= None
    /\ Get(result, "artistName", UnknownArtist) /= None

\* C6: a call that read a well-formed top result from the catalog never
\* raises, and the record it returns (the one fetch_all appends) carries the
\* catalog's title, artist, album, genre and link and, as recording year, the
\* first four characters of the release date, or "Unknown" without one; if the
\* encyclopedia returned nothing, no composition year was found and the
\* streaming lookup returned nothing, composition_year and spotify_link are
\* empty strings.
C6_GracefulDegradation ==
    (frame /= NoneD /\ WellFormed(frame.result)) =>
        /\ pc /= "raised"
        /\ ReturnedRecord =>
               /\ ret /= NoneD
               /\ results /= <<>> /\ results[Len(results)] = ret
               /\ ret.title = Get(frame.result, "trackName", UnknownTitle)
               /\ ret.artist = Get(frame.result, "artistName", UnknownArtist)
               /\ ret.album = Get(frame.result, "collectionName", UnknownAlbum)
               /\ ret.genre = Get(frame.result, "primaryGenreName", UnknownGenre)
               /\ ret.apple_link = Get(frame.result, "trackViewUrl", <<>>)
               /\ ret.recording_year =
                      IF Truthy(Get(frame.result, "releaseDate", <<>>))
                      THEN Take(frame.result.releaseDate, 4) ELSE Unknown
               /\ (frame.mb_data = NoneD /\ ~Truthy(frame.composition_year)
                       /\ frame.spotify_data = NoneD) =>
                      (ret.composition_year = <<>> /\ ret.spotify_link = <<>>)

\* A record was returned after every lookup failed at its first request: the
\* recording search, the free-text work search, the page search and the token
\* request were made, and nothing after them.
C6_Witness ==
    /\ ReturnedRecord
    /\ ret.composition_year = <<>>
    /\ ret.spotify_link = <<>>
    /\ ret.recording_year = <<"2", "0", "1", "1">>
    /\ \A k \in 1..Len(log) :
           log[k].ep \in {"sleep", "itunes_search", "mb_recording_search", "mb_work_search",
                          "wikipedia_search", "spotify_token"}
    /\ \E k \in 1..Len(log) : log[k].ep = "mb_recording_search"
    /\ \E k \in 1..Len(log) : log[k].ep = "mb_work_search"
    /\ \E k \in 1..Len(log) : log[k].ep = "wikipedia_search"
    /\ \E k \in 1..Len(log) : log[k].ep = "spotify_token"

\* C7: the composer of a returned record is the catalog's composer when that
\* is non-empty, otherwise the composer the encyclopedia lookup returned when
\* there is one, otherwise "Unknown Composer"; no record of the results has an
\* empty or null composer.
C7_ComposerPriority ==
    /\ ReturnedRecord =>
           LET catalog == Get(frame.result, "composer", None)
               found == IF frame.mb_data /= NoneD
                        THEN Get(frame.mb_data, "composer", None) ELSE None
           IN  ret.composer = IF Truthy(catalog) THEN catalog
                              ELSE IF Truthy(found) THEN found
                              ELSE UnknownComposer
    /\ \A k \in 1..Len(results) : Truthy(results[k].composer)

\* A record got the encyclopedia's composer because the catalog listed none.
C7_Witness ==
    /\ ReturnedRecord
    /\ ~Truthy(Get(frame.result, "composer", None))
    /\ frame.mb_data /= NoneD
    /\ Truthy(frame.mb_data.composer)
    /\ ret.composer = frame.mb_data.composer

\* The place of each endpoint's service in the order of the lookups (0: a
\* pause).
ServiceRank ==
    [sleep |-> 0, itunes_search |-> 1,
     mb_recording_search |-> 2, mb_recording |-> 2, mb_work |-> 2, mb_work_search |-> 2,
     wikipedia_search |-> 3, wikipedia_pageprops |-> 3, wikidata_entity |-> 3,
     spotify_token |-> 4, spotify_search |-> 4]

Rank(event) == ServiceRank[event.ep]

\* C8: within one fetch_metadata call the requests go to the catalog, then
\* the encyclopedia, then the knowledge graph, then the streaming service: no
\* request follows a request to a later service, and the catalog search is the
\* first event of the call and its only catalog request.
C8_FixedServiceOrder ==
    /\ \A k \in 2..Len(log) :
           Rank(log[k]) > 0 => \A j \in 1..(k - 1) : Rank(log[j]) <= Rank(log[k])
    /\ log /= <<>> =>
           /\ log[1].ep = "itunes_search"
           /\ \A k \in 2..Len(log) : log[k].ep /= "itunes_search"

\* A call went through all four services and returned its record.
C8_Witness ==
    /\ ReturnedRecord
    /\ \E k \in 1..Len(log) : Rank(log[k]) = 2
    /\ \E k \in 1..Len(log) : Rank(log[k]) = 3
    /\ \E k \in 1..Len(log) : log[k].ep = "spotify_search"

\* The number of recording searches in the log.
RecordingSearches == Cardinality({k \in 1..Len(log) : log[k].ep = "mb_recording_search"})

\* C9: in fetch_work_details_from_mb the recording searches ask for the title
\* variants in list order; when the work of a variant has a composer, the
\* lookup returns that composer at once, with no further recording search and
\* no free-text work search; the free-text work search asks for the original
\* query, after every variant was searched.
C9_ShortCircuit ==
    [][/\ pc = "mb_rec_req" =>
              /\ RecordingSearches < Len(mb.title_variants)
              /\ log' = Append(log, RequestEvent("mb_recording_search",
                                                 mb.title_variants[RecordingSearches + 1]))
       /\ (pc = "mb_work_req" /\ ~IsExc(resp') /\ ComposerOf(resp') /= Exn
               /\ Truthy(ComposerOf(resp'))) =>
              /\ pc' = "mb_done"
              /\ frame'.mb_data /= NoneD
              /\ frame'.mb_data.composer = ComposerOf(resp')
       /\ pc = "fb_search_req" =>
              /\ log' = Append(log, RequestEvent("mb_work_search", frame.query))
              /\ RecordingSearches \in {0, Len(mb.title_variants)}]_vars

\* A candidate of the fallback qualifies: its work was fetched, has a
\* composer, and the composer's name occurs in the artist string or a part of
\* it longer than 3 characters occurs in the query, ignoring case.
Qualifies(r, artist, query) ==
    /\ ~IsExc(r)
    /\ ComposerOf(r) /= Exn
    /\ Truthy(ComposerOf(r))
    /\ \/ Contains(Lower(artist), Lower(ComposerOf(r)))
       \/ \E k \in 1..Len(SplitWS(ComposerOf(r))) :
              /\ Len(SplitWS(ComposerOf(r))[k]) > 3
              /\ Contains(Lower(query), Lower(SplitWS(ComposerOf(r))[k]))

\* C10: when the free-text work search has answered with candidates, the
\* fallback examines them in order, goes past every candidate that does not
\* qualify (a failed detail fetch included), returns the composer of the first
\* that qualifies, and returns None only after it has examined all of them.
C10_FallbackFirstQualifying ==
    (pc = "mb_done" /\ mb /= NoneD /\ mb.works /= <<>>) =>
        LET seen == mb.seen
        IN  /\ \A k \in 1..(Len(seen) - 1) : ~Qualifies(seen[k], frame.artist, frame.query)
            /\ IF seen /= <<>> /\ Qualifies(seen[Len(seen)], frame.artist, frame.query)
               THEN frame.mb_data = [composer |-> ComposerOf(seen[Len(seen)]), year |-> None]
               ELSE frame.mb_data = NoneD /\ Len(seen) = Len(mb.works)


\* The encyclopedia lookup returned a non-empty year.
HasMBYear == frame.mb_data /= NoneD /\ Truthy(Get(frame.mb_data, "year", None))

\* C11: within a call, a request to Wikipedia or Wikidata is made only when
\* the encyclopedia lookup returned no result or no year; when it returned a
\* non-empty year, the record is returned with that year as composition_year
\* and without any such request.
C11_EncyclopediaYearPreferred ==
    frame /= NoneD =>
        /\ (\E k \in 1..Len(log) : Rank(log[k]) = 3) => ~HasMBYear
        /\ (ReturnedRecord /\ HasMBYear) => ret.composition_year = frame.mb_data.year

\* A record was returned with the encyclopedia's year, after no request to
\* Wikipedia or Wikidata.
C11_Witness ==
    /\ ReturnedRecord
    /\ HasMBYear
    /\ ret.composition_year = <<"1", "7", "2", "4">>
    /\ \A k \in 1..Len(log) : Rank(log[k]) /= 3


---------------------------------------------------------------------------
(* fetch_work_details_from_mb on many titles: the call starts right after  *)
(* the catalog answered with one result, and runs to its return.           *)

MaxTitleLen == 4

TitleAlphabet == {"a", " ", ":", "(", ")", "\""}

\* The titles of up to MaxTitleLen characters.
Titles == UNION {[1..n -> TitleAlphabet] : n \in 0..MaxTitleLen}

\* Artist strings: one name, two names, and two strings without a name.
VariantArtists == {S_Yo, S_OrffMa, <<"&">>, <<" ", ",", "\t">>}

InitVariants ==
    /\ music_titles = <<Q_BachX, Q_X>>
    /\ i = 1
    /\ results = <<>>
    /\ spotify_client_id = ""
    /\ spotify_client_secret = ""
    /\ spotify_token = None
    /\ spotify_token_expires = 0
    /\ \E t \in Titles, a \in VariantArtists :
           LET result == [trackName |-> t, artistName |-> a]
           IN  /\ frame = NewFrame(Q_BachX, result)
               /\ resp = [resultCount |-> 1, results |-> <<result>>]
    /\ pc = "mb_enter"
    /\ mb = NoneD
    /\ entity_id = ""
    /\ log = <<RequestEvent("itunes_search", Q_BachX)>>
    /\ ret = NoneD
    /\ year_lines = <<>>
    /\ elements = <<>>
    /\ DefaultGenerator

NextVariants ==
    \/ MBPrepare
    \/ Sleep
    \/ MBRecordingSearch
    \/ MBRecordingDetails
    \/ MBWorkDetails
    \/ MBWorkSearch
    \/ MBFallbackWork

SpecVariants == InitVariants /\ [][NextVariants]_vars


\* Character k of s lies in a parenthesised group: some "(" at or before k
\* has no ")" between it and k, and a ")" follows at or after k.
InGroup(s, k) == \E p \in 1..k : /\ s[p] = "("
                                 /\ \A m \in (p + 1)..(k - 1) : s[m] /= ")"
                                 /\ \E q \in (IF k > p THEN k ELSE p + 1)..Len(s) : s[q] = ")"

\* s without its parenthesised groups.
WithoutGroups(s) == LET kept == SelectSeq([k \in 1..Len(s) |-> k], LAMBDA k : ~InGroup(s, k))
                    IN  [n \in 1..Len(kept) |-> s[kept[n]]]

\* s without the blanks at its two ends.
Trimmed(s) == LET solid == {k \in 1..Len(s) : s[k] \notin Whitespace}
              IN  IF solid = {} THEN <<>>
                  ELSE SubSeq(s, CHOOSE a \in solid : \A b \in solid : a <= b, CHOOSE a \in solid : \A b \in solid : a >= b)

\* The places where ": " starts in s.
ColonAt(s) == {k \in 1..(Len(s) - 1) : s[k] = ":" /\ s[k + 1] = " "}

\* The variants the documentation of fetch_work_details_from_mb describes.
DescribedVariants(title) ==
    LET v1 == SelectSeq(title, LAMBDA ch : ch /= "\"")
        at == ColonAt(v1)
        first == CHOOSE k \in at : \A m \in at : k <= m
        v3 == Trimmed(WithoutGroups(v1))
    IN  <<v1>> \o (IF at = {} THEN <<>> ELSE <<SubSeq(v1, first + 2, Len(v1))>>)
               \o (IF v3 /= <<>> /\ v3 /= v1 THEN <<v3>> ELSE <<>>)

\* The artist string has a name: a character that is neither a separator nor
\* a blank.
HasName(artist) == \E k \in 1..Len(artist) : artist[k] \notin {",", "&"} \cup Whitespace

\* The titles searched for recordings so far, in order.
SearchedTitles == LET at == SelectSeq([k \in 1..Len(log) |-> k], LAMBDA k : log[k].ep = "mb_recording_search")
                  IN  [n \in 1..Len(at) |-> log[at[n]].arg]

\* C12: once fetch_work_details_from_mb has built its title variants, they
\* are at most three: the title without double quotes, then the text after
\* its first ": " when there is one, then the title without parenthesised
\* groups, trimmed, when that is non-empty and differs from the first; the
\* recording searches made so far are for the first variants in that order,
\* and there is none when the artist string holds no name.
C12_TitleVariants ==
    mb /= NoneD =>
        /\ Len(mb.title_variants) \in 1..3
        /\ mb.title_variants = DescribedVariants(frame.title)
        /\ Len(SearchedTitles) <= Len(mb.title_variants)
        /\ SearchedTitles = SubSeq(mb.title_variants, 1, Len(SearchedTitles))
        /\ ~HasName(frame.artist) => SearchedTitles = <<>>

\* All three variants of the title ": ()" were searched in order.
C12_Witness ==
    /\ mb /= NoneD
    /\ frame.title = <<":", " ", "(", ")">>
    /\ SearchedTitles = <<frame.title, <<"(", ")">>, <<":">>>>

\* The lookup finished without a recording search for an artist string
\* without a name.
C12_WitnessNoArtist ==
    /\ pc = "mb_done"
    /\ ~HasName(frame.artist)
    /\ Len(mb.title_variants) = 2
    /\ SearchedTitles = <<>>


\* The time string of the first value of a property of the entity, if any.
FirstTimes(claims, prop) ==
    LET snaks == Get(claims, prop, <<>>)
    IN  IF snaks = <<>> \/ "mainsnak" \notin DOMAIN snaks[1] THEN {}
        ELSE IF "datavalue" \notin DOMAIN snaks[1].mainsnak THEN {}
        ELSE IF "value" \notin DOMAIN snaks[1].mainsnak.datavalue THEN {}
        ELSE IF "time" \notin DOMAIN snaks[1].mainsnak.datavalue.value THEN {}
        ELSE {snaks[1].mainsnak.datavalue.value.time}

\* A time string without its leading sign.
Unsigned(t) == IF t /= <<>> /\ t[1] \in {"+", "-"} THEN Tail(t) ELSE t

\* The valid year of a property: the first four characters of its unsigned
\* time string, when these are decimal digits.
ValidYears(claims, prop) ==
    {y \in {SubSeq(Unsigned(t), 1, IF Len(Unsigned(t)) < 4 THEN Len(Unsigned(t)) ELSE 4) : t \in FirstTimes(claims, prop)} :
        y /= <<>> /\ \A k \in 1..Len(y) : y[k] \in Digits}

\* The knowledge graph has just answered with the claims of the entity.
EntityAnswered ==
    /\ log /= <<>>
    /\ log[Len(log)].ep = "wikidata_entity"
    /\ resp /= NoneD
    /\ ~IsExc(resp)
    /\ entity_id \in DOMAIN resp.entities
    /\ "claims" \in DOMAIN resp.entities[entity_id]

\* C13: when the knowledge graph answers with the entity's claims, the year
\* returned is the valid year of P571 when there is one, else the valid year
\* of P577 when there is one, else None; a returned year is a string of at
\* most four decimal digits.
C13_InceptionBeforePublication ==
    EntityAnswered =>
        LET claims == resp.entities[entity_id].claims
            year == frame.composition_year
        IN  /\ ValidYears(claims, "P571") /= {} => year \in ValidYears(claims, "P571")
            /\ (ValidYears(claims, "P571") = {} /\ ValidYears(claims, "P577") /= {}) =>
                   year \in ValidYears(claims, "P577")
            /\ (ValidYears(claims, "P571") = {} /\ ValidYears(claims, "P577") = {}) =>
                   year = None
            /\ year /= None => Len(year) <= 4 /\ \A k \in 1..Len(year) : year[k] \in Digits

\* The entity has an inception without a valid year and a publication date,
\* whose year was returned.
C13_Witness ==
    /\ EntityAnswered
    /\ FirstTimes(resp.entities[entity_id].claims, "P571") /= {}
    /\ ValidYears(resp.entities[entity_id].claims, "P571") = {}
    /\ frame.composition_year = <<"2", "0", "2", "5">>


\* A text field of a page in lower case, empty when absent or null.
PageText(page, field) ==
    IF field \in DOMAIN page /\ page[field] /= None THEN Lower(page[field]) ELSE <<>>

\* The parts of a name: its maximal runs of non-blank characters, as pairs of
\* first and last position.
NameParts(name) ==
    {ab \in (1..Len(name)) \X (1..Len(name)) :
        /\ ab[1] <= ab[2]
        /\ \A k \in ab[1]..ab[2] : name[k] \notin Whitespace
        /\ ab[1] = 1 \/ name[ab[1] - 1] \in Whitespace
        /\ ab[2] = Len(name) \/ name[ab[2] + 1] \in Whitespace}

\* The relevance score the documentation describes.
DescribedScore(page, composer) ==
    LET name == Lower(composer)
        matched == {ab \in NameParts(name) :
                       /\ ab[2] - ab[1] + 1 > 3
                       /\ \E field \in {"description", "title", "excerpt"} :
                              Contains(PageText(page, field), SubSeq(name, ab[1], ab[2]))}
    IN  (IF \E kw \in {<<"o", "p", "e", "r", "a">>, <<"s", "y", "m", "p", "h", "o", "n", "y">>,
                       <<"c", "o", "m", "p", "o", "s", "i", "t", "i", "o", "n">>,
                       <<"s", "o", "n", "g">>, <<"a", "l", "b", "u", "m">>,
                       <<"m", "u", "s", "i", "c", "a", "l", " ", "w", "o", "r", "k">>} :
                Contains(PageText(page, "description"), kw) THEN 3 ELSE 0)
        + (IF \E kw \in ExcerptKeywords : Contains(PageText(page, "excerpt"), kw) THEN 2 ELSE 0)
        + 4 * Cardinality(matched)

\* Wikipedia has just answered the search with pages (objects, none null).
PagesAnswered ==
    /\ log /= <<>>
    /\ log[Len(log)].ep = "wikipedia_search"
    /\ resp /= NoneD
    /\ ~IsExc(resp)
    /\ "pages" \in DOMAIN resp
    /\ resp.pages /= <<>>
    /\ \A k \in 1..Len(resp.pages) : resp.pages[k] /= NoneD

\* C14: when Wikipedia answers the search with pages, the page resolved is
\* the one no page outscores and no earlier page equals in score; without a
\* key on that page the lookup returns None, otherwise the page properties
\* of that key are asked for next.
C14_BestScoredPage ==
    PagesAnswered =>
        \E k \in 1..Len(resp.pages) :
            LET score(n) == DescribedScore(resp.pages[n], WikiComposer(frame))
            IN  /\ \A n \in 1..Len(resp.pages) : score(n) <= score(k)
                /\ \A n \in 1..(k - 1) : score(n) < score(k)
                /\ IF "key" \in DOMAIN resp.pages[k] /\ Truthy(resp.pages[k].key)
                   THEN pc = "wiki_props_sleep" /\ frame.page_key = resp.pages[k].key
                   ELSE pc /= "wiki_props_sleep" /\ frame.composition_year = None

\* Of three pages the second and the third score 3 and the first 0; the
\* second was resolved.
C14_Witness ==
    /\ PagesAnswered
    /\ Len(resp.pages) = 3
    /\ DescribedScore(resp.pages[1], WikiComposer(frame)) = 0
    /\ DescribedScore(resp.pages[2], WikiComposer(frame)) = 3
    /\ DescribedScore(resp.pages[3], WikiComposer(frame)) = 3
    /\ frame.page_key = S_Air_Bach
    /\ pc = "wiki_props_sleep"

\* The page matching the composer's name outscored the others.
C14_WitnessComposer ==
    /\ PagesAnswered
    /\ Len(resp.pages) = 3
    /\ DescribedScore(resp.pages[2], WikiComposer(frame)) = 7
    /\ DescribedScore(resp.pages[3], WikiComposer(frame)) = 5
    /\ frame.page_key = S_Air_Bach


\* The encyclopedia has just answered with the work of a title variant, and
\* the work's first composer relation names a composer.
VariantWorkAnswered ==
    /\ log /= <<>>
    /\ log[Len(log)].ep = "mb_work"
    /\ \A k \in 1..Len(log) : log[k].ep /= "mb_work_search"
    /\ resp /= NoneD
    /\ ~IsExc(resp)
    /\ ComposerOf(resp) /= Exn
    /\ Truthy(ComposerOf(resp))

\* The non-empty begin dates of a work: of its life-span and of its
\* performance relations.
WorkDates(work_details) ==
    LET life_span == Get(work_details, "life-span", [id |-> "none"])
        relations == Get(work_details, "relations", <<>>)
    IN  {d \in {Get(life_span, "begin", None)} : Truthy(d)}
        \cup {relations[k].begin : k \in {n \in 1..Len(relations) :
                                            /\ Get(relations[n], "type", "") = "performance"
                                            /\ Truthy(Get(relations[n], "begin", None))}}

\* fetch_work_details_from_mb has returned the result of a title variant.
VariantReturned == VariantWorkAnswered /\ pc = "mb_done" /\ frame.mb_data /= NoneD

\* C15: the year returned for a title variant's work with a composer is
\* non-empty whenever the work has a life-span begin or a performance begin
\* date, and is then the first four characters of one of those dates; it is
\* None only when the work has neither.
C15_WorkYearFromDates ==
    VariantReturned =>
        LET year == frame.mb_data.year
        IN  /\ WorkDates(resp) /= {} =>
                   /\ Truthy(year)
                   /\ year \in {Take(d, 4) : d \in WorkDates(resp)}
            /\ year = None => WorkDates(resp) = {}

\* C16: when the work of a title variant has a composer relation naming a
\* composer, fetch_work_details_from_mb returns that composer for this
\* variant, whatever the life-span and the performance relations hold.
C16_ComposerWhateverDates ==
    VariantWorkAnswered =>
        /\ pc = "mb_done"
        /\ frame.mb_data /= NoneD
        /\ frame.mb_data.composer = ComposerOf(resp)


\* A non-empty string of decimal digits.
IntegerString(s) == s /= <<>> /\ \A k \in 1..Len(s) : s[k] \in Digits

\* What the back card of a record must show for its years.
CardYearsRight(item, line) ==
    LET composition_year == IF item.composition_year = None THEN <<>> ELSE item.composition_year
        recording_year == item.recording_year
    IN  /\ (IntegerString(composition_year) /\ IntegerString(recording_year)) =>
               /\ line.rec = None <=> composition_year = recording_year
               /\ line.rec = None => line.bold = composition_year
               /\ line.rec /= None =>
                      /\ DecVal(line.bold) <= DecVal(line.rec)
                      /\ \/ line.bold = composition_year /\ line.rec = recording_year
                         \/ line.bold = recording_year /\ line.rec = composition_year
        /\ composition_year = <<>> => line.bold = recording_year /\ line.rec = None

\* C17: create_pdf prints one back card per record and leaves the records as
\* they are; on a card whose two years are integer strings the main year is
\* not later than the year of the "(rec. ...)" line, the two are the
\* record's two values, and the line is left out exactly when they are
\* equal; without a composition year the recording year alone is printed.
C17_BackPageYears ==
    [][(pc = "returned" /\ pc' = "printed") =>
           /\ results' = results
           /\ Len(year_lines') = Len(results)
           /\ \A k \in 1..Len(results) : CardYearsRight(results[k], year_lines'[k])]_vars

\* Two records were printed: one with the composition year 2025 and the
\* recording year 2011, with 2011 as the main year and "(rec. 2025)"; one
\* whose two years are both 2011, with 2011 alone and no "(rec. ...)" line.
C17_Witness ==
    /\ pc = "printed"
    /\ \E k \in 1..Len(results) :
           /\ results[k].composition_year = <<"2", "0", "2", "5">>
           /\ results[k].recording_year = <<"2", "0", "1", "1">>
           /\ year_lines[k] = [bold |-> <<"2", "0", "1", "1">>, rec |-> <<"2", "0", "2", "5">>]
    /\ \E k \in 1..Len(results) :
           /\ results[k].composition_year = <<"2", "0", "1", "1">>
           /\ results[k].recording_year = <<"2", "0", "1", "1">>
           /\ year_lines[k] = [bold |-> <<"2", "0", "1", "1">>, rec |-> None]


---------------------------------------------------------------------------
(* create_pdf on many lists and grids: the list holds records and entries   *)
(* that are None or an empty dict, the generator is built from the command  *)
(* line.                                                                    *)

MaxItems == 5

MaxRows == 2

MaxCols == 3

\* The k-th record: its title has k characters.
PdfItem(k, links) ==
    [query |-> [n \in 1..k |-> "x"],
     title |-> [n \in 1..k |-> "x"],
     artist |-> S_Yo,
     composer |-> UnknownComposer,
     album |-> UnknownAlbum,
     year |-> <<"2", "0", "1", "1">>,
     recording_year |-> <<"2", "0", "1", "1">>,
     composition_year |-> <<>>,
     genre |-> UnknownGenre,
     apple_link |-> links.apple,
     spotify_link |-> links.spotify]

\* The k-th entry of the list is a record with both links, with the
\* catalog's only or with none, or it is None or an empty dict.
InitPdf ==
    /\ LET Entry(k, kind) ==
               CASE kind = "None" -> NoneD
                 [] kind = "{}" -> <<>>
                 [] kind = "both" -> PdfItem(k, [apple |-> <<"u", "1">>, spotify |-> S_Url])
                 [] kind = "apple" -> PdfItem(k, [apple |-> <<"u", "1">>, spotify |-> <<>>])
                 [] kind = "no link" -> PdfItem(k, [apple |-> <<>>, spotify |-> <<>>])
       IN  \E n \in 1..MaxItems :
               \E kinds \in [1..n -> {"None", "{}", "both", "apple", "no link"}] :
                   results = [k \in 1..n |-> Entry(k, kinds[k])]
    /\ music_titles = [k \in 1..Len(results) |-> [n \in 1..k |-> "x"]]
    /\ i = Len(results) + 1
    /\ spotify_client_id = ""
    /\ spotify_client_secret = ""
    /\ spotify_token = None
    /\ spotify_token_expires = 0
    /\ pc = "returned"
    /\ frame = NoneD
    /\ mb = NoneD
    /\ entity_id = ""
    /\ log = <<>>
    /\ resp = NoneD
    /\ ret = NoneD
    /\ year_lines = <<>>
    /\ elements = <<>>
    /\ mirror_metadata \in BOOLEAN
    /\ rows \in 1..MaxRows
    /\ cols \in 1..MaxCols
    /\ platform \in {"apple", "spotify"}

NextPdf == CreatePdf

SpecPdf == InitPdf /\ [][NextPdf]_vars

\* The places of a grid page: row and column, both from 1.
Places == (1..rows) \X (1..cols)

\* The card of a record is at the place of a back page.
CardAt(table, place, item) ==
    /\ table[place[1]][place[2]] /= EmptyCell
    /\ table[place[1]][place[2]].title = item.title

\* Where the k-th record belongs: its sheet, and its row and column on the
\* front page (all from 0).
SheetOf(k) == (k - 1) \div (rows * cols)

RowOf(k) == ((k - 1) % (rows * cols)) \div cols

ColOf(k) == ((k - 1) % (rows * cols)) % cols

\* The link of a record for the chosen platform.
LinkOf(item) == IF platform = "spotify" THEN item.spotify_link ELSE item.apple_link

\* C18: the items of a list are its entries other than None and the empty
\* dict, numbered in the order of the list. create_pdf builds a front and a
\* back page per sheet; every item has one place on the front page of its
\* sheet, holding the QR code of its link or nothing when it has no link,
\* and one place on the following back page, in the same row, at the
\* mirrored column cols-1-c when mirroring and at the same column c
\* otherwise; every other place is empty.
C18_FrontBackAligned ==
    pc = "printed" =>
        LET given == {k \in 1..Len(results) : results[k] /= NoneD /\ results[k] /= <<>>}
            nr(k) == Cardinality({j \in given : j <= k})
            sheets == {SheetOf(nr(k)) : k \in given}
            front(s) == elements[4 * s + 1]
            back(s) == elements[4 * s + 3]
            back_col(k) == IF mirror_metadata THEN cols - 1 - ColOf(nr(k)) ELSE ColOf(nr(k))
        IN  /\ Len(elements) = 4 * Cardinality(sheets)
            /\ \A k \in given :
                   /\ front(SheetOf(nr(k)))[RowOf(nr(k)) + 1][ColOf(nr(k)) + 1] =
                          IF LinkOf(results[k]) = <<>> THEN EmptyCell
                          ELSE QrImage(LinkOf(results[k]))
                   /\ \A place \in Places :
                          CardAt(back(SheetOf(nr(k))), place, results[k])
                              <=> place = <<RowOf(nr(k)) + 1, back_col(k) + 1>>
                   /\ \A s \in sheets \ {SheetOf(nr(k))} : \A place \in Places :
                          ~CardAt(back(s), place, results[k])
            /\ \A s \in sheets : \A place \in Places :
                   LET taken == \E k \in given :
                                    /\ SheetOf(nr(k)) = s
                                    /\ RowOf(nr(k)) + 1 = place[1] /\ ColOf(nr(k)) + 1 = place[2]
                   IN  /\ ~taken => front(s)[place[1]][place[2]] = EmptyCell
                       /\ \/ back(s)[place[1]][place[2]] = EmptyCell
                          \/ \E k \in given :
                                 SheetOf(nr(k)) = s /\ CardAt(back(s), place, results[k])

\* A list of five entries, the second None, the fourth an empty dict and
\* the third a record without a link, was printed mirrored on two sheets of
\* one row and two columns: the first and the third entry share the first
\* sheet, the front place of the third is empty and its card is at the first
\* column of the back page, and the fifth entry is alone on the second sheet.
C18_Witness ==
    /\ pc = "printed"
    /\ Len(results) = 5
    /\ results[2] = NoneD /\ results[4] = <<>>
    /\ \A k \in {1, 3, 5} : results[k] /= NoneD /\ results[k] /= <<>>
    /\ rows = 1 /\ cols = 2 /\ mirror_metadata
    /\ LinkOf(results[3]) = <<>> /\ LinkOf(results[1]) /= <<>> /\ LinkOf(results[5]) /= <<>>
    /\ Len(elements) = 8
    /\ elements[1][1][1] = QrImage(LinkOf(results[1]))
    /\ elements[1][1][2] = EmptyCell
    /\ CardAt(elements[3], <<1, 1>>, results[3])
    /\ CardAt(elements[3], <<1, 2>>, results[1])
    /\ elements[5][1][1] = QrImage(LinkOf(results[5]))
    /\ elements[7][1][1] = EmptyCell
    /\ CardAt(elements[7], <<1, 2>>, results[5])

==========================================================================
